---- MODULE Spec2Model ----
(***************************************************************************)
(* Model of the step-wise recipe chatbot of src/ai-chatbot/app.py (the     *)
(* upstream/UI5 side of the merged file): the Gradio handlers              *)
(* init_chat, on_text_submit and on_option_change, the state dictionary    *)
(* they mutate, and the pipelines they trigger (trend search, forecast     *)
(* concept selection, recipe synthesis, revision, save).                   *)
(*                                                                         *)
(* Texts.  A Python string is a sequence of tokens; a token is a TLA+      *)
(* string standing for a run of characters.  The empty string is <<>>,     *)
(* None is the one-token text Null.  Whitespace, code fences, braces and   *)
(* brackets are tokens of their own, so that strip(), replace(), find()    *)
(* and the slicing of extract_json_from_text are computed on the tokens.   *)
(* The Korean literals of the source are written in English.               *)
(***************************************************************************)
EXTENDS Integers, Sequences, FiniteSets, TLC

VARIABLES
    state,        \* the conversation state dictionary held in gr.State
    started,      \* init_chat has run (demo.load)
    serpapi_key,  \* SERPAPI_API_KEY is configured
    calls,        \* the external calls of the last turn, in order
    raised,       \* "" or the exception that ended the last turn
    lastOp,       \* the handler of the last turn and its input
    hist,         \* bookkeeping about the past (not program state)
    sel,          \* a direct call of the forecast concept selection: inputs, result
    logs,         \* the logs directory, the clock and the sessions writing to it
    render,       \* a direct call of render_recipe_text: payload, result
    svc           \* the analytics service: its globals, its loader thread, the last request

vars == <<state, started, serpapi_key, calls, raised, lastOp, hist, sel, logs, render, svc>>

-----------------------------------------------------------------------------
(* Bounds *)

MaxTurns == 6      \* the turns of a session that change the state
MaxCandidates == 3 \* the longest candidate list given to the selector
MaxResponse == 3   \* the most elements of an array the selection LLM answers
MaxClock == 3      \* the last tick of the clock the transcripts are stamped with
MaxWrites == 3     \* the calls of log_trend made by all sessions together
MaxItems == 2      \* the longest ingredients or steps list rendered

-----------------------------------------------------------------------------
(* Texts *)

Null == <<"<None>">>
Empty == <<>>

Truthy(t) == t # Null /\ t # Empty

\* x or default
OrElse(t, d) == IF Truthy(t) THEN t ELSE d

WS == {" ", "\n"}
FENCE_JSON == "<fence>json"
FENCE == "<fence>"

RECURSIVE LStrip(_)
LStrip(t) == IF t # <<>> /\ Head(t) \in WS THEN LStrip(Tail(t)) ELSE t

RECURSIVE RStrip(_)
RStrip(t) ==
    IF t # <<>> /\ t[Len(t)] \in WS THEN RStrip(SubSeq(t, 1, Len(t) - 1)) ELSE t

\* str.strip()
Strip(t) == RStrip(LStrip(t))

\* str.replace(tok, "")
RECURSIVE Remove(_, _)
Remove(t, tok) ==
    IF t = <<>> THEN <<>>
    ELSE IF Head(t) = tok THEN Remove(Tail(t), tok)
    ELSE <<Head(t)>> \o Remove(Tail(t), tok)

\* str.replace(tok, by) for a one-token pattern
RECURSIVE Replace(_, _, _)
Replace(t, tok, by) ==
    IF t = <<>> THEN <<>>
    ELSE IF Head(t) = tok THEN by \o Replace(Tail(t), tok, by)
    ELSE <<Head(t)>> \o Replace(Tail(t), tok, by)

\* str.startswith(fence): both fence tokens begin with the three backquotes
StartsWithFence(t) == t # <<>> /\ Head(t) \in {FENCE, FENCE_JSON}

\* cleaned.replace(fence + "json", "").replace(fence, "").strip()
StripFences(t) == Strip(Remove(Remove(t, FENCE_JSON), FENCE))

\* str.find / str.rfind of a one-token pattern: 0 stands for -1
Find(t, tok) ==
    IF \E i \in 1..Len(t) : t[i] = tok
    THEN CHOOSE i \in 1..Len(t) : t[i] = tok /\ \A j \in 1..(i - 1) : t[j] # tok
    ELSE 0

RFind(t, tok) ==
    IF \E i \in 1..Len(t) : t[i] = tok
    THEN CHOOSE i \in 1..Len(t) : t[i] = tok /\ \A j \in (i + 1)..Len(t) : t[j] # tok
    ELSE 0

Range(s) == {s[i] : i \in 1..Len(s)}

\* sep.join(items) for one-token items
RECURSIVE Join(_, _)
Join(items, sep) ==
    IF items = <<>> THEN <<>>
    ELSE IF Len(items) = 1 THEN <<Head(items)>>
    ELSE <<Head(items), sep>> \o Join(Tail(items), sep)

-----------------------------------------------------------------------------
(* JSON values carried by tokens.                                          *)
(* Inside braces a member token stands for one "key": value pair, inside   *)
(* brackets an element token stands for one array element.                 *)

\* the members the model's responses use: key, kind of the value, content
MemberOf(tok) ==
    CASE tok = "title:Kimchi Stew" ->
            [key |-> "title", kind |-> "str", items |-> <<"Kimchi Stew">>]
      [] tok = "title:5" ->
            [key |-> "title", kind |-> "num", items |-> <<>>]
      [] tok = "ingredients:[kimchi,pork]" ->
            [key |-> "ingredients", kind |-> "list", items |-> <<"kimchi", "pork">>]
      [] tok = "ingredients:[tofu]" ->
            [key |-> "ingredients", kind |-> "list", items |-> <<"tofu">>]
      [] tok = "ingredients:5" ->
            [key |-> "ingredients", kind |-> "num", items |-> <<>>]
      [] tok = "steps:[boil,simmer]" ->
            [key |-> "steps", kind |-> "list", items |-> <<"boil", "simmer">>]
      [] tok = "description:Tasty" ->
            [key |-> "description", kind |-> "str", items |-> <<"Tasty">>]
      [] tok = "description:" ->
            [key |-> "description", kind |-> "str", items |-> <<>>]

MemberTokens ==
    {"title:Kimchi Stew", "title:5", "ingredients:[kimchi,pork]", "ingredients:[tofu]",
     "ingredients:5", "steps:[boil,simmer]", "description:Tasty", "description:"}

\* a value that is absent from the payload: payload.get(key) is None
Absent == [kind |-> "none", items |-> <<>>]

\* json.loads(text) succeeds with a dict: braces around members and whitespace
IsJsonObject(t) ==
    /\ Len(t) >= 2
    /\ t[1] = "{"
    /\ t[Len(t)] = "}"
    /\ \A i \in 2..(Len(t) - 1) : t[i] \in MemberTokens \cup WS

\* the dict json.loads returns: the last member of a key wins
Payload(t) ==
    [k \in {"title", "description", "ingredients", "steps"} |->
        LET idx == {i \in 2..(Len(t) - 1) :
                        t[i] \in MemberTokens /\ MemberOf(t[i]).key = k}
        IN  IF idx = {} THEN Absent
            ELSE LET last == CHOOSE i \in idx : \A j \in idx : j <= i
                 IN  [kind |-> MemberOf(t[last]).kind, items |-> MemberOf(t[last]).items]]

\* bool(payload): a dict with at least one key
PayloadNonEmpty(t) == \E i \in 2..(Len(t) - 1) : t[i] \in MemberTokens

\* bool(value) of a JSON value
ValueTruthy(v) ==
    CASE v.kind = "none" -> FALSE
      [] v.kind = "num" -> TRUE          \* the numbers used are non-zero
      [] OTHER -> v.items # <<>>

-----------------------------------------------------------------------------
(* Pure helpers of app.py *)

Last(t) == t[Len(t)]

extract_json_from_text(text) ==
    IF ~Truthy(text) THEN <<>>
    ELSE
        LET stripped == Strip(text)
            cleaned == IF StartsWithFence(stripped) THEN StripFences(stripped)
                       ELSE stripped
            start == Find(cleaned, "{")
            end == RFind(cleaned, "}")
        IN  IF cleaned # <<>> /\ Head(cleaned) = "{" /\ Last(cleaned) = "}"
            THEN cleaned
            ELSE IF start # 0 /\ end # 0 /\ end > start
            THEN SubSeq(cleaned, start, end)
            ELSE <<>>

\* f"{value}" of a JSON value
StrOf(v) ==
    CASE v.kind = "str" -> IF v.items = <<>> THEN "" ELSE v.items[1]
      [] v.kind = "num" -> "5"
      [] OTHER -> "[...]"

\* the lines one section of render_recipe_text appends
RECURSIVE BulletLines(_)
BulletLines(items) ==
    IF items = <<>> THEN <<>>
    ELSE <<"- " \o Head(items)>> \o BulletLines(Tail(items))

RECURSIVE NumberedLines(_, _)
NumberedLines(items, idx) ==
    IF items = <<>> THEN <<>>
    ELSE <<ToString(idx) \o ") " \o Head(items)>> \o NumberedLines(Tail(items), idx + 1)

\* "\n".join(lines).strip(); an empty line is the empty run of characters
LinesToText(lines) == Strip(Remove(Join(lines, "\n"), ""))

\* render_recipe_text with the description section before the steps
render_recipe_text_description_first(payload) ==
    LET title == payload["title"]
        description == payload["description"]
        ingredients == payload["ingredients"]
        steps == payload["steps"]
        l1 == IF ValueTruthy(title)
              THEN <<"Recipe name: " \o StrOf(title), "">> ELSE <<>>
        l2 == IF ValueTruthy(ingredients)
              THEN <<"Ingredients (2-3 servings):">> \o BulletLines(ingredients.items) \o <<"">>
              ELSE <<>>
        l3 == IF ValueTruthy(steps)
              THEN <<"Steps:">> \o NumberedLines(steps.items, 1) \o <<"">>
              ELSE <<>>
        l4 == IF ValueTruthy(description)
              THEN <<"Recipe intro:", StrOf(description), "">> ELSE <<>>
    IN  [raised |-> "", text |-> LinesToText(l1 \o l2 \o l4 \o l3)]

\* render_recipe_text: the text, or the TypeError of iterating a number
\* (ingredients, steps) or of joining a non-string (description)
render_recipe_text(payload) ==
    LET title == payload["title"]
        description == payload["description"]
        ingredients == payload["ingredients"]
        steps == payload["steps"]
        l1 == IF ValueTruthy(title)
              THEN <<"Recipe name: " \o StrOf(title), "">> ELSE <<>>
        l2 == IF ValueTruthy(ingredients)
              THEN <<"Ingredients (2-3 servings):">> \o BulletLines(ingredients.items) \o <<"">>
              ELSE <<>>
        l3 == IF ValueTruthy(steps)
              THEN <<"Steps:">> \o NumberedLines(steps.items, 1) \o <<"">>
              ELSE <<>>
        l4 == IF ValueTruthy(description)
              THEN <<"Recipe intro:", StrOf(description)>> ELSE <<>>
        typeError == \/ ValueTruthy(ingredients) /\ ingredients.kind = "num"
                     \/ ValueTruthy(steps) /\ steps.kind = "num"
                     \/ ValueTruthy(description) /\ description.kind # "str"
    IN  IF typeError THEN [raised |-> "TypeError", text |-> <<>>]
        ELSE [raised |-> "", text |-> LinesToText(l1 \o l2 \o l3 \o l4)]

\* the candidate concepts: c1, c2, ...
Concept(i) == "c" \o ToString(i)
Concepts(n) == [i \in 1..n |-> Concept(i)]

\* the elements the model's array responses use; str(x).strip() of each
ElementTokens ==
    {Concept(i) : i \in 1..(MaxCandidates + 1)}
        \cup {"zz", " c1 ", "\"\"", "null", "q1", "q2"}

ElemStr(tok) ==
    CASE tok = " c1 " -> "c1"
      [] tok = "\"\"" -> ""
      [] tok = "null" -> "None"
      [] OTHER -> tok

\* json.loads(text) succeeds with a list
IsJsonArray(t) ==
    /\ Len(t) >= 2
    /\ t[1] = "["
    /\ t[Len(t)] = "]"
    /\ \A i \in 2..(Len(t) - 1) : t[i] \in ElementTokens \cup WS

RECURSIVE StrippedElements(_)
StrippedElements(t) ==
    IF t = <<>> THEN <<>>
    ELSE IF Head(t) \in ElementTokens /\ ElemStr(Head(t)) # ""
    THEN <<ElemStr(Head(t))>> \o StrippedElements(Tail(t))
    ELSE StrippedElements(Tail(t))

parse_json_array(text) ==
    IF ~Truthy(text) THEN <<>>
    ELSE
        LET stripped == Strip(text)
            cleaned == IF StartsWithFence(stripped) THEN StripFences(stripped)
                       ELSE stripped
        IN  IF IsJsonArray(cleaned)
            THEN StrippedElements(SubSeq(cleaned, 2, Len(cleaned) - 1))
            ELSE <<>>

-----------------------------------------------------------------------------
(* External calls.  An adapter's outcome is a record: raised is "" and     *)
(* text (or results) is what the call returned, or raised names the        *)
(* exception.  A call of the turn is logged as [fn, site, arg].            *)

Call(fn, site, arg) == [fn |-> fn, site |-> site, arg |-> arg]

Returned(text) == [raised |-> "", text |-> text]
Raises(exc) == [raised |-> exc, text |-> <<>>]

NONE_TEXT == <<"none">>            \* the literal the prompts use for a missing value

\* [item for item in selected if item in candidates]
RECURSIVE FilterIn(_, _)
FilterIn(selected, candidates) ==
    IF selected = <<>> THEN <<>>
    ELSE IF Head(selected) \in Range(candidates)
    THEN <<Head(selected)>> \o FilterIn(Tail(selected), candidates)
    ELSE FilterIn(Tail(selected), candidates)

\* filtered[:n]
Prefix(t, n) == SubSeq(t, 1, IF Len(t) < n THEN Len(t) ELSE n)

MaxSelected == 2

build_select_prompt(candidates, base_recipe, constraints, trend_summary) ==
    <<"[select concepts]", "[base]">> \o OrElse(base_recipe, NONE_TEXT)
        \o <<"[constraints]">> \o OrElse(constraints, NONE_TEXT)
        \o <<"[trend]">> \o OrElse(trend_summary, NONE_TEXT)
        \o <<"[candidates]">> \o candidates

\* select_forecast_items_llm returning what the model selected, unfiltered
select_forecast_items_llm_unfiltered(candidates, base_recipe, constraints, trend_summary, llm) ==
    IF candidates = <<>>
    THEN [result |-> <<>>, calls |-> <<>>, raised |-> ""]
    ELSE
        LET prompt == build_select_prompt(candidates, base_recipe, constraints, trend_summary)
            call == Call("call_llm_with_system", "select", prompt)
        IN  IF llm.raised # ""
            THEN [result |-> <<>>, calls |-> <<call>>, raised |-> llm.raised]
            ELSE [result |-> Prefix(parse_json_array(llm.text), MaxSelected),
                  calls |-> <<call>>, raised |-> ""]

\* select_forecast_items_llm without the early return on no candidates
select_forecast_items_llm_always_asks(candidates, base_recipe, constraints, trend_summary, llm) ==
    LET prompt == build_select_prompt(candidates, base_recipe, constraints, trend_summary)
        call == Call("call_llm_with_system", "select", prompt)
    IN  IF llm.raised # ""
        THEN [result |-> <<>>, calls |-> <<call>>, raised |-> llm.raised]
        ELSE [result |-> Prefix(FilterIn(parse_json_array(llm.text), candidates),
                                MaxSelected),
              calls |-> <<call>>, raised |-> ""]

\* llm is the outcome of the one call_llm_with_system the function may make
select_forecast_items_llm(candidates, base_recipe, constraints, trend_summary, llm) ==
    IF candidates = <<>>
    THEN [result |-> <<>>, calls |-> <<>>, raised |-> ""]
    ELSE
        LET prompt == build_select_prompt(candidates, base_recipe, constraints, trend_summary)
            call == Call("call_llm_with_system", "select", prompt)
        IN  IF llm.raised # ""
            THEN [result |-> <<>>, calls |-> <<call>>, raised |-> llm.raised]
            ELSE
                LET selected == parse_json_array(llm.text)
                    filtered == FilterIn(selected, candidates)
                IN  [result |-> Prefix(filtered, MaxSelected),
                     calls |-> <<call>>, raised |-> ""]

-----------------------------------------------------------------------------
(* Constants of app.py *)

REGEN_OPTION == <<"Regenerate recipe">>
SAVE_OPTION == <<"Save">>
SAVE_DONE_OPTION == <<"Save (done)">>
SAVE_PUBLIC_OPTION == <<"Save public">>
SAVE_PRIVATE_OPTION == <<"Save private">>
NO_TREND_OPTION == <<"No trend">>
KOREA == <<"Korea">>

MSG_ASK_REVISION == <<"Please enter what you want to change.">>
MSG_ALREADY_SAVED == <<"This recipe is already saved.">>
MSG_ASK_VISIBILITY == <<"Please choose the visibility.">>
MSG_NOT_PARSED == <<"Could not parse the recipe as JSON. Regenerate, then save.">>
MSG_SAVED == <<"Saved.">>

FORECAST_PLACEHOLDER == "__FORECAST_SELECTED__"

UserMsg(content) == [role |-> "user", content |-> content]
AssistantMsg(content) == [role |-> "assistant", content |-> content]

should_disable_textbox(s) == s.options # <<>>

build_trend_query_prompt(country) == <<"[trend queries]">> \o country

build_revision_prompt(recipe_json, revision_request) ==
    <<"[revise]", "[recipe JSON]">> \o recipe_json \o <<"[changes]">> \o revision_request

-----------------------------------------------------------------------------
(* The dialogue graph (graph.py).  run_graph advances the dialogue to the  *)
(* next pause: greeting and country options, the base recipe question, the *)
(* constraints question, then prompt assembly.                             *)

JAPAN == <<"Japan">>
FORECAST_COUNTRIES == {JAPAN}
COUNTRY_OPTIONS == <<KOREA, NO_TREND_OPTION>>

MSG_GREETING == <<"Hello! I am the recipe assistant.">>
MSG_ASK_COUNTRY == <<"Which country's trends should be reflected?">>
MSG_ASK_BASE == <<"Tell me the menu or the base recipe.">>
MSG_ASK_CONSTRAINTS == <<"Tell me extra conditions or ideas.">>

make_initial_state(forecast_items) ==
    [messages |-> <<>>,
     options |-> <<>>,
     intro_done |-> FALSE,
     base_done |-> FALSE,
     constraints_done |-> FALSE,
     trend_selected |-> FALSE,
     recipe_generated |-> FALSE,
     await_revision |-> FALSE,
     await_save_visibility |-> FALSE,
     regenerate |-> FALSE,
     do_save |-> FALSE,
     base_recipe |-> Null,
     constraints |-> Null,
     country |-> Null,
     trend_enabled |-> FALSE,
     revision_request |-> Null,
     trend_forecast_items |-> forecast_items,
     prompt |-> Null,
     recipe |-> Null,
     save_disabled |-> FALSE,
     saved_recipe_id |-> Null,
     save_open_yn |-> Null]

build_prompt(s) ==
    <<"[recipe request]", "[country]">> \o OrElse(s.country, NONE_TEXT)
        \o <<"[base]">> \o OrElse(s.base_recipe, NONE_TEXT)
        \o <<"[constraints]">> \o OrElse(s.constraints, NONE_TEXT)
        \o <<"[concepts]", FORECAST_PLACEHOLDER>>

intro_node(s) ==
    IF s.intro_done THEN s
    ELSE [s EXCEPT !.messages = Append(@, AssistantMsg(MSG_GREETING)),
                   !.intro_done = TRUE]

run_graph(s0) ==
    LET s == intro_node(s0)
    IN  IF ~s.trend_selected
        THEN [s EXCEPT !.messages = Append(@, AssistantMsg(MSG_ASK_COUNTRY)),
                       !.options = COUNTRY_OPTIONS]
        ELSE IF ~s.base_done
        THEN [s EXCEPT !.messages = Append(@, AssistantMsg(MSG_ASK_BASE)),
                       !.options = <<>>]
        ELSE IF ~s.constraints_done
        THEN [s EXCEPT !.messages = Append(@, AssistantMsg(MSG_ASK_CONSTRAINTS)),
                       !.options = <<>>]
        ELSE IF s.prompt = Null
        THEN [s EXCEPT !.prompt = build_prompt(s),
                       !.options = <<REGEN_OPTION, SAVE_OPTION>>]
        ELSE s

-----------------------------------------------------------------------------
(* apply_user_input: the user's text or selected option applied to the state *)

\* the Regenerate branch that starts the transcript over
regen_selected_fresh_transcript(s) ==
    [s EXCEPT !.regenerate = TRUE, !.await_revision = TRUE,
              !.save_disabled = FALSE, !.saved_recipe_id = Null,
              !.options = <<>>,
              !.messages = <<AssistantMsg(MSG_ASK_REVISION)>>]

\* the Regenerate branch that leaves the save bookkeeping alone
regen_selected_keeping_saved(s) ==
    [s EXCEPT !.regenerate = TRUE, !.await_revision = TRUE,
              !.options = <<>>,
              !.messages = Append(@, AssistantMsg(MSG_ASK_REVISION))]

\* the Regenerate branch that also clears recipe_generated
regen_selected_clearing(s) ==
    [s EXCEPT !.regenerate = TRUE, !.await_revision = TRUE,
              !.recipe_generated = FALSE,
              !.save_disabled = FALSE, !.saved_recipe_id = Null,
              !.options = <<>>,
              !.messages = Append(@, AssistantMsg(MSG_ASK_REVISION))]

\* lines 185-196: Regenerate was selected
regen_selected(s) ==
    [s EXCEPT !.regenerate = TRUE, !.await_revision = TRUE,
              !.save_disabled = FALSE, !.saved_recipe_id = Null,
              !.options = <<>>,
              !.messages = Append(@, AssistantMsg(MSG_ASK_REVISION))]

\* the Save branch without the test of save_disabled
save_selected_unchecked(s) ==
    [s EXCEPT !.await_save_visibility = TRUE,
              !.options = <<SAVE_PUBLIC_OPTION, SAVE_PRIVATE_OPTION>>,
              !.messages = Append(@, AssistantMsg(MSG_ASK_VISIBILITY))]

\* the Save branch that asks for the visibility and keeps the menu shown
save_selected_keeping_menu(s) ==
    IF s.save_disabled
    THEN [s EXCEPT !.messages = Append(@, AssistantMsg(MSG_ALREADY_SAVED))]
    ELSE [s EXCEPT !.await_save_visibility = TRUE,
                   !.messages = Append(@, AssistantMsg(MSG_ASK_VISIBILITY))]

\* lines 199-212: Save, or the relabelled Save, was selected
save_selected(s) ==
    IF s.save_disabled
    THEN [s EXCEPT !.messages = Append(@, AssistantMsg(MSG_ALREADY_SAVED))]
    ELSE [s EXCEPT !.await_save_visibility = TRUE,
                   !.options = <<SAVE_PUBLIC_OPTION, SAVE_PRIVATE_OPTION>>,
                   !.messages = Append(@, AssistantMsg(MSG_ASK_VISIBILITY))]

\* the revision text taken as the answer to the constraints question
revision_submitted_as_constraints(s, user_input) ==
    [s EXCEPT !.revision_request = user_input,
              !.constraints = IF user_input = <<>> THEN Null ELSE user_input,
              !.await_revision = FALSE,
              !.recipe_generated = FALSE]

\* lines 219-224: the text typed while a revision is awaited
revision_submitted(s, user_input) ==
    [s EXCEPT !.revision_request = user_input,
              !.await_revision = FALSE,
              !.recipe_generated = FALSE]

\* the free-text answer that waits for a non-empty text
free_text_answer_requires_text(s, user_input) ==
    IF user_input = <<>> THEN s
    ELSE IF ~s.base_done
    THEN [s EXCEPT !.base_recipe = user_input, !.base_done = TRUE]
    ELSE IF ~s.constraints_done
    THEN [s EXCEPT !.constraints = user_input, !.constraints_done = TRUE]
    ELSE s

\* lines 225-230: the text typed as the base recipe or as the constraints
free_text_answer(s, user_input) ==
    IF ~s.base_done
    THEN [s EXCEPT !.base_recipe = IF user_input = <<>> THEN Null ELSE user_input,
                   !.base_done = TRUE]
    ELSE IF ~s.constraints_done
    THEN [s EXCEPT !.constraints = IF user_input = <<>> THEN Null ELSE user_input,
                   !.constraints_done = TRUE]
    ELSE s

apply_user_input(state0, user_input) ==
    LET s == IF user_input # <<>>
             THEN [state0 EXCEPT !.messages = Append(@, UserMsg(user_input))]
             ELSE state0
    IN  IF s.options # <<>>
        THEN
            IF s.await_save_visibility
            THEN
                IF user_input = SAVE_PUBLIC_OPTION
                THEN [s EXCEPT !.save_open_yn = <<"Y">>, !.do_save = TRUE,
                               !.await_save_visibility = FALSE, !.options = <<>>]
                ELSE IF user_input = SAVE_PRIVATE_OPTION
                THEN [s EXCEPT !.save_open_yn = <<"N">>, !.do_save = TRUE,
                               !.await_save_visibility = FALSE, !.options = <<>>]
                ELSE s
            ELSE IF user_input = NO_TREND_OPTION
            THEN [s EXCEPT !.trend_enabled = FALSE, !.country = Null,
                           !.trend_selected = TRUE]
            ELSE IF user_input = REGEN_OPTION
            THEN regen_selected(s)
            ELSE IF user_input = SAVE_OPTION \/ user_input = SAVE_DONE_OPTION
            THEN save_selected(s)
            ELSE [s EXCEPT !.trend_enabled = TRUE, !.country = user_input,
                           !.trend_selected = TRUE]
        ELSE
            IF s.await_revision
            THEN revision_submitted(s, user_input)
            ELSE free_text_answer(s, user_input)

-----------------------------------------------------------------------------
(* The pipelines.  env holds, for one turn, whether SERPAPI_API_KEY is set *)
(* (key) and the outcome each external call would have if it were made:    *)
(* query, search, summary, log, select, synth, post.  Every operator       *)
(* returns the state it leaves, the calls it made and "" or the exception  *)
(* that left it.                                                           *)

R(s, c, exc) == [state |-> s, calls |-> c, raised |-> exc]

SearchTop == 3

\* serpapi_search: the top three organic results, or the HTTP error
serpapi_search(query, country, key, http) ==
    IF ~key THEN [results |-> <<>>, calls |-> <<>>, raised |-> ""]
    ELSE
        LET call == Call("requests.get", "search", <<query>> \o country)
        IN  IF http.raised # ""
            THEN [results |-> <<>>, calls |-> <<call>>, raised |-> http.raised]
            ELSE [results |-> Prefix(http.text, SearchTop), calls |-> <<call>>,
                  raised |-> ""]

summarize_trends(results, llm) ==
    LET call == Call("client.responses.create", "summary", <<"[summarize]">> \o results)
    IN  [summary |-> llm.text, calls |-> <<call>>, raised |-> llm.raised]

log_trend(country, queries, results, summary, fs) ==
    LET call == Call("open", "log_trend", <<"logs/trend_">> \o country)
    IN  [calls |-> <<call>>, raised |-> fs.raised]

\* line 559: "%Y%m%d_%H%M%S" keeps the whole seconds of the clock
TicksPerSecond == 2
strftime_seconds(now) == now \div TicksPerSecond

\* line 560: logs/trend_{country}_{stamp}.json
log_path(country, now) == [country |-> country, stamp |-> strftime_seconds(now)]

\* lines 561-566
log_payload(country, queries, results, summary) ==
    [country |-> country, queries |-> queries, results |-> results,
     summary |-> summary]

\* line 567: open(path, "w") creates the file or truncates it
open_for_writing(files, path) ==
    {f \in files : f.path # path} \cup {[path |-> path, content |-> <<>>]}

\* the text the file at path holds, <<>> when it is empty or missing
content_at(files, path) ==
    IF \E f \in files : f.path = path
    THEN (CHOOSE f \in files : f.path = path).content
    ELSE <<>>

\* line 568: json.dump writes the payload from the start of the file; what
\* another writer put there since the open is replaced, or, being longer,
\* leaves its tail behind the payload
json_dump(files, path, payload, tail) ==
    {f \in files : f.path # path}
        \cup {[path |-> path,
                content |-> IF tail THEN <<payload>> \o content_at(files, path)
                            ELSE <<payload>>]}

\* line 654: the transcript record lg was written after the summary sm
with_log(sm, c3, lg) ==
    [summary |-> sm.summary, calls |-> c3 \o lg.calls, raised |-> lg.raised]

\* lines 651-654: the summary sm of the results, then log_trend
with_summary(country, queries, results, c2, sm, env) ==
    IF sm.raised # ""
    THEN [summary |-> <<>>, calls |-> c2 \o sm.calls, raised |-> sm.raised]
    ELSE with_log(sm, c2 \o sm.calls,
                  log_trend(country, queries, results, sm.summary, env.log))

\* the summary made whatever the search found, nothing included
with_results_always_summarised(country, queries, qcall, found, env) ==
    IF found.raised # ""
    THEN [summary |-> <<>>, calls |-> <<qcall>> \o found.calls, raised |-> found.raised]
    ELSE with_summary(country, queries, found.results, <<qcall>> \o found.calls,
                      summarize_trends(found.results, env.summary), env)

\* lines 637-654: the search answered found; a summary is made of its results
with_results(country, queries, qcall, found, env) ==
    IF found.raised # ""
    THEN [summary |-> <<>>, calls |-> <<qcall>> \o found.calls, raised |-> found.raised]
    ELSE IF found.results = <<>>
    THEN [summary |-> <<>>, calls |-> <<qcall>> \o found.calls, raised |-> ""]
    ELSE with_summary(country, queries, found.results, <<qcall>> \o found.calls,
                      summarize_trends(found.results, env.summary), env)

\* lines 624-654: the queries the LLM answered; the first one is searched
with_queries(country, qcall, queries, env) ==
    IF env.query.raised # ""
    THEN [summary |-> <<>>, calls |-> <<qcall>>, raised |-> env.query.raised]
    ELSE IF queries = <<>>
    THEN [summary |-> <<>>, calls |-> <<qcall>>, raised |-> ""]
    ELSE with_results(country, queries, qcall,
                      serpapi_search(queries[1], country, env.key, env.search), env)

\* lines 621-654 of try_generate_recipe, entered when the gate is open
trend_pipeline(country, env) ==
    with_queries(country,
                 Call("call_llm", "trend_query", build_trend_query_prompt(country)),
                 parse_json_array(env.query.text), env)

\* lines 592-597 and 693-698: the rendering is shown, the JSON text stored
stored_rendering(recipe_json_text, rendered) ==
    [raised |-> rendered.raised, recipe |-> recipe_json_text, message |-> rendered.text]

\* the rendering that gives up on a response holding no JSON object
rendered_payload_without_fallback(recipe_text, recipe_json_text) ==
    IF recipe_json_text # <<>> /\ IsJsonObject(recipe_json_text)
          /\ PayloadNonEmpty(recipe_json_text)
    THEN stored_rendering(recipe_json_text, render_recipe_text(Payload(recipe_json_text)))
    ELSE [raised |-> "JSONDecodeError", recipe |-> Null, message |-> <<>>]

\* lines 584-601 and 686-704: what is stored and shown once the JSON text is
\* extracted
rendered_payload(recipe_text, recipe_json_text) ==
    IF recipe_json_text # <<>> /\ IsJsonObject(recipe_json_text)
          /\ PayloadNonEmpty(recipe_json_text)
    THEN stored_rendering(recipe_json_text, render_recipe_text(Payload(recipe_json_text)))
    ELSE [raised |-> "", recipe |-> recipe_text, message |-> recipe_text]

\* lines 582-601 and 684-704: what is stored and shown for a synthesis response
parse_and_render(recipe_text) == rendered_payload(recipe_text, extract_json_from_text(recipe_text))

EMPTY_OBJECT == <<"{", "}">>

\* lines 582-610: after the revision call, pr being what its response gives
revised(s, env, call, pr) ==
    IF env.synth.raised # "" THEN R(s, <<call>>, env.synth.raised)
    ELSE IF pr.raised # "" THEN R(s, <<call>>, pr.raised)
    ELSE R([s EXCEPT !.recipe = pr.recipe,
                     !.messages = Append(@, AssistantMsg(pr.message)),
                     !.recipe_generated = TRUE,
                     !.regenerate = FALSE,
                     !.revision_request = <<>>,
                     !.options = <<REGEN_OPTION, SAVE_OPTION>>],
           <<call>>, "")

\* lines 577-610: the revision branch
revise_recipe(s, env) ==
    revised(s, env,
            Call("call_llm", "revision",
                 build_revision_prompt(OrElse(s.recipe, EMPTY_OBJECT),
                                       OrElse(s.revision_request, <<>>))),
            parse_and_render(env.synth.text))

\* lines 679-681: the text made of what the selector returned
selected_concepts(r) ==
    [selected_text |-> IF r.result # <<>> THEN Join(r.result, ", ") ELSE NONE_TEXT,
     invoked |-> TRUE, calls |-> r.calls, raised |-> r.raised]

\* lines 669-681: the text that replaces the forecast placeholder; invoked
\* tells whether select_forecast_items_llm was called
select_concepts(forecast_candidates, base_recipe, constraints, trend_summary, llm) ==
    IF forecast_candidates # <<>>
    THEN selected_concepts(select_forecast_items_llm(forecast_candidates, base_recipe,
                                                     constraints, trend_summary, llm))
    ELSE [selected_text |-> NONE_TEXT, invoked |-> FALSE, calls |-> <<>>,
          raised |-> ""]

\* lines 683-708: after the synthesis call, pr being what its response gives
synthesized(s, env, made, pr) ==
    IF env.synth.raised # "" THEN R(s, made, env.synth.raised)
    ELSE IF pr.raised # "" THEN R(s, made, pr.raised)
    ELSE R([s EXCEPT !.recipe = pr.recipe,
                     !.messages = Append(@, AssistantMsg(pr.message)),
                     !.recipe_generated = TRUE,
                     !.save_disabled = FALSE],
           made, "")

\* lines 669-708: the concepts picked are written into the prompt, then synthesis
with_concepts(s, env, trend, prompt1, picked) ==
    IF picked.raised # "" THEN R(s, trend.calls \o picked.calls, picked.raised)
    ELSE synthesized(s, env,
                     trend.calls \o picked.calls
                        \o <<Call("call_llm", "synthesis",
                                  Replace(prompt1, FORECAST_PLACEHOLDER,
                                          picked.selected_text))>>,
                     parse_and_render(env.synth.text))

\* lines 662-708: the trend summary is appended to the prompt, then selection
with_trend(s, env, trend) ==
    IF trend.raised # "" THEN R(s, trend.calls, trend.raised)
    ELSE with_concepts(s, env, trend,
                       IF trend.summary # <<>> THEN s.prompt \o trend.summary
                       ELSE s.prompt,
                       select_concepts(s.trend_forecast_items, s.base_recipe,
                                       s.constraints, trend.summary, env.select))

\* the gate of the trend search without the test of the credential
generate_in_without_key_test(s, country, env) ==
    with_trend(s, env,
               IF s.trend_enabled /\ (country = KOREA \/ country \in FORECAST_COUNTRIES)
               THEN trend_pipeline(country, env)
               ELSE [summary |-> <<>>, calls |-> <<>>, raised |-> ""])

\* lines 614-708: the gate of the trend search, country being state's or ""
generate_in(s, country, env) ==
    with_trend(s, env,
               IF s.trend_enabled /\ (country = KOREA \/ country \in FORECAST_COUNTRIES)
                     /\ env.key
               THEN trend_pipeline(country, env)
               ELSE [summary |-> <<>>, calls |-> <<>>, raised |-> ""])

\* lines 612-709: the fresh generation
generate_recipe(s, env) == generate_in(s, OrElse(s.country, <<>>), env)

\* try_generate_recipe without the revision branch
try_generate_recipe_fresh_only(s, env) ==
    IF Truthy(s.prompt) /\ ~s.recipe_generated
    THEN generate_recipe(s, env)
    ELSE R(s, <<>>, "")

\* try_generate_recipe without the test of recipe_generated
try_generate_recipe_regardless(s, env) ==
    IF s.regenerate /\ Truthy(s.revision_request)
    THEN revise_recipe(s, env)
    ELSE IF Truthy(s.prompt)
    THEN generate_recipe(s, env)
    ELSE R(s, <<>>, "")

try_generate_recipe(s, env) ==
    IF s.regenerate /\ Truthy(s.revision_request)
    THEN revise_recipe(s, env)
    ELSE IF Truthy(s.prompt) /\ ~s.recipe_generated
    THEN generate_recipe(s, env)
    ELSE R(s, <<>>, "")

\* _extract_recipe_payload returns a non-empty dict
RecipePayloadText(s) ==
    LET recipe_text == OrElse(s.recipe, <<>>)
        extracted == extract_json_from_text(recipe_text)
    IN  IF extracted # <<>> THEN extracted ELSE Strip(recipe_text)

HasRecipePayload(s) ==
    /\ Truthy(s.recipe)
    /\ IsJsonObject(RecipePayloadText(s))
    /\ PayloadNonEmpty(RecipePayloadText(s))

SaveOptions(s) ==
    <<REGEN_OPTION, IF s.save_disabled THEN SAVE_DONE_OPTION ELSE SAVE_OPTION>>

\* the response handling that records a save whatever the backend answered
post_answered_always_saved(s, resp) ==
    [s EXCEPT !.saved_recipe_id = IF resp.raised = "" /\ Len(resp.text) > 1
                                  THEN Tail(resp.text) ELSE Null,
              !.save_disabled = TRUE,
              !.messages = Append(@, AssistantMsg(MSG_SAVED))]

\* lines 422-447: the state after session.post answered resp or raised
post_answered(s, resp) ==
    IF resp.raised # ""
    THEN [s EXCEPT !.messages =
              Append(@, AssistantMsg(<<"Error while saving: ", resp.raised>>))]
    ELSE IF Head(resp.text) = "200"
    THEN [s EXCEPT !.saved_recipe_id =
                      IF Len(resp.text) > 1 THEN Tail(resp.text) ELSE Null,
                   !.save_disabled = TRUE,
                   !.messages = Append(@, AssistantMsg(MSG_SAVED))]
    ELSE [s EXCEPT !.messages =
              Append(@, AssistantMsg(<<"Save failed. (HTTP ">> \o resp.text
                                       \o <<")">>))]

\* line 448: the menu offered after the save attempt
with_save_options(s1, made) == R([s1 EXCEPT !.options = SaveOptions(s1)], made, "")

\* (payload.get(key) or "").strip() of a number, lines 354-355
save_payload_raises(payload) ==
    payload["title"].kind = "num" \/ payload["description"].kind = "num"

\* the save that posts whatever the stored recipe is
save_recipe_to_backend_unparsed(s, env) ==
    with_save_options(
        post_answered(s, env.post),
        <<Call("session.get", "csrf", <<>>),
          Call("session.post", "save",
               RecipePayloadText(s) \o OrElse(s.save_open_yn, <<"N">>))>>)

save_recipe_to_backend(s, env) ==
    IF ~HasRecipePayload(s)
    THEN R([s EXCEPT !.messages = Append(@, AssistantMsg(MSG_NOT_PARSED)),
                     !.options = <<REGEN_OPTION, SAVE_OPTION>>], <<>>, "")
    ELSE IF save_payload_raises(Payload(RecipePayloadText(s)))
    THEN R(s, <<>>, "AttributeError")
    ELSE with_save_options(
             post_answered(s, env.post),
             <<Call("session.get", "csrf", <<>>),
               Call("session.post", "save",
                    RecipePayloadText(s) \o OrElse(s.save_open_yn, <<"N">>))>>)

-----------------------------------------------------------------------------
(* The handlers *)

\* lines 757-758: try_generate_recipe returned r after the graph calls gcalls
generated(gcalls, r) == R(r.state, gcalls \o r.calls, r.raised)

\* the graph advanced in every turn that does not save
advanced_always(s1, advance, env) ==
    generated(<<Call("run_graph", "graph", <<>>)>>,
              try_generate_recipe(run_graph(s1), env))

\* lines 754-758: the graph advances unless an answer is awaited
advanced(s1, advance, env) ==
    generated(IF advance THEN <<Call("run_graph", "graph", <<>>)>> ELSE <<>>,
              try_generate_recipe(IF advance THEN run_graph(s1) ELSE s1, env))

\* lines 733-758: s1 is the state apply_user_input returned
input_applied(s1, env) ==
    IF s1.do_save
    THEN save_recipe_to_backend([s1 EXCEPT !.do_save = FALSE], env)
    ELSE advanced(s1, ~s1.await_revision /\ ~s1.await_save_visibility, env)

on_text_submit(user_input, state0, env) ==
    input_applied(apply_user_input(state0, user_input), env)

\* on_option_change without the test of an empty choice
on_option_change_unguarded(choice, state0, env) == on_text_submit(choice, state0, env)

on_option_change(choice, state0, env) ==
    IF ~Truthy(choice) THEN R(state0, <<>>, "")
    ELSE on_text_submit(choice, state0, env)

init_chat(forecast_items) == run_graph(make_initial_state(forecast_items))

-----------------------------------------------------------------------------
(* The environment of a turn: what the external services may answer *)

JSON_RECIPE ==
    <<FENCE_JSON, "\n", "{", "title:Kimchi Stew", "ingredients:[kimchi,pork]",
      "steps:[boil,simmer]", "}", "\n", FENCE>>
PROSE_RECIPE == <<"Sorry, I cannot help.">>
BAD_RECIPE == <<"{", "ingredients:5", "}">>
NUM_TITLE_RECIPE == <<"{", "title:5", "}">>

QueryOutcomes == {Returned(<<"[", "q1", "q2", "]">>), Returned(<<"Sorry">>),
                  Raises("LLMError")}
SearchOutcomes == {Returned(<<"r1", "r2", "r3", "r4">>), Returned(<<>>),
                   Raises("HTTPError")}
SummaryOutcomes == {Returned(<<"[trend] fusion">>), Raises("LLMError")}
LogOutcomes == {Returned(<<>>), Raises("OSError")}
SelectOutcomes == {Returned(<<"[", "zz", " c1 ", "c3", "c2", "]">>), Returned(<<"Sorry">>),
                   Raises("LLMError")}
SynthOutcomes == {Returned(JSON_RECIPE), Returned(PROSE_RECIPE), Returned(BAD_RECIPE),
                  Returned(NUM_TITLE_RECIPE), Raises("LLMError")}
PostOutcomes == {Returned(<<"200", "id:7">>), Returned(<<"500">>),
                 Raises("ConnectionError")}

\* every call answers, with a usable result: the turn makes every call it can
DefaultEnv(key) ==
    [key |-> key,
     query |-> Returned(<<"[", "q1", "q2", "]">>),
     search |-> Returned(<<"r1", "r2", "r3", "r4">>),
     summary |-> Returned(<<"[trend] fusion">>),
     log |-> Returned(<<>>),
     select |-> Returned(<<"[", "zz", " c1 ", "c3", "c2", "]">>),
     synth |-> Returned(JSON_RECIPE),
     post |-> Returned(<<"200", "id:7">>)]

Sites(cs) == {cs[i].site : i \in 1..Len(cs)}

Run(handler, input, s, env) ==
    IF handler = "on_text_submit" THEN on_text_submit(input, s, env)
    ELSE on_option_change(input, s, env)

\* the outcomes to consider for a call the turn reaches when every call answers
Dom(sites, reach0, all, own) == IF sites \cap reach0 # {} THEN all ELSE {own}

\* an environment says nothing about a call the turn does not make: the outcome
\* of a call that an earlier outcome cuts off is left at its default
Canonical(e, d) ==
    LET queryOk == e.query.raised = "" /\ parse_json_array(e.query.text) # <<>>
        searchOk == queryOk /\ e.search.raised = "" /\ e.search.text # <<>>
        summaryOk == searchOk /\ e.summary.raised = ""
        trendRaised == \/ e.query.raised # ""
                       \/ queryOk /\ e.search.raised # ""
                       \/ searchOk /\ e.summary.raised # ""
                       \/ summaryOk /\ e.log.raised # ""
    IN  /\ ~queryOk => e.search = d.search
        /\ ~searchOk => e.summary = d.summary
        /\ ~summaryOk => e.log = d.log
        /\ trendRaised => e.select = d.select
        /\ (trendRaised \/ e.select.raised # "") => e.synth = d.synth

\* the environments that differ from d in a call at one of the sites reach0
EnvsReaching(d, reach0) ==
    IF reach0 \subseteq {"graph"} THEN {d}
    ELSE {e \in [key : {d.key},
                 query : Dom({"trend_query"}, reach0, QueryOutcomes, d.query),
                 search : Dom({"search"}, reach0, SearchOutcomes, d.search),
                 summary : Dom({"summary"}, reach0, SummaryOutcomes, d.summary),
                 log : Dom({"log_trend"}, reach0, LogOutcomes, d.log),
                 select : Dom({"select"}, reach0, SelectOutcomes, d.select),
                 synth : Dom({"synthesis", "revision"}, reach0, SynthOutcomes,
                             d.synth),
                 post : Dom({"save"}, reach0, PostOutcomes, d.post)] :
            Canonical(e, d)}

\* the environments of a turn that differ in a call the turn makes
TurnEnvs(h, i, s, key) ==
    EnvsReaching(DefaultEnv(key), Sites(Run(h, i, s, DefaultEnv(key)).calls))

AdapterExceptions == {"LLMError", "HTTPError", "OSError"}

ForecastItemSets == {<<>>, Concepts(3)}
TextInputs == {<<>>, <<"kimchi stew">>}
\* what can be submitted as text: anything while the textbox is enabled, a
\* non-empty text past the disabled textbox while options are shown
TextInputsAt(s) == IF should_disable_textbox(s) THEN TextInputs \ {<<>>} ELSE TextInputs

-----------------------------------------------------------------------------
(* Bookkeeping about the turn just made *)

\* the recipe value a synthesis call produces, Null when it produces none
SynthValue(outcome) ==
    IF outcome.raised # "" THEN Null
    ELSE LET pr == parse_and_render(outcome.text)
         IN  IF pr.raised # "" THEN Null ELSE pr.recipe

PrevOf(s) ==
    [recipe |-> s.recipe,
     revision_request |-> s.revision_request,
     options |-> s.options,
     recipe_generated |-> s.recipe_generated,
     await_revision |-> s.await_revision,
     await_save_visibility |-> s.await_save_visibility,
     save_disabled |-> s.save_disabled]

HistAfter(handler, input, env, r) ==
    LET synthMade == {"synthesis", "revision"} \cap Sites(r.calls) # {}
        captured == state.options = <<>> /\ state.await_revision
        uses0 == IF captured THEN 0 ELSE hist.revisionUses
    IN  [turns |-> hist.turns + 1,
         synthMade |-> hist.synthMade \/ synthMade,
         synthValue |-> IF synthMade THEN SynthValue(env.synth) ELSE hist.synthValue,
         revisionUses |-> IF "revision" \in Sites(r.calls) /\ uses0 < 2
                          THEN uses0 + 1 ELSE uses0,
         prev |-> PrevOf(state)]

-----------------------------------------------------------------------------
(* The analytics service (src/analysis-engine/main.py): the two module      *)
(* globals df and growth_summary_df, the loader thread that fills them and  *)
(* the request handlers that read them.  A DataFrame is its set of column   *)
(* labels and its set of rows; None is a frame of kind "None".  The Korean  *)
(* country and item names of the source are written in English.             *)

max_retries == 2   \* the attempts of the loader to read export_trends

NoneFrame == [kind |-> "None", columns |-> {}, rows |-> {}]

\* pd.DataFrame(): no columns, no rows
EmptyFrame == [kind |-> "frame", columns |-> {}, rows |-> {}]

\* pd.DataFrame(rows, columns=cols)
DataFrame(rows, cols) == [kind |-> "frame", columns |-> cols, rows |-> rows]

\* DataFrame.empty: one of the two axes has length 0
empty(frame) == frame.columns = {} \/ frame.rows = {}

COUNTRY_MAPPING == [name \in {"United States"} |-> "US"]
REVERSE_MAPPING == [code \in {"US"} |-> "United States"]
UI_TO_CSV_ITEM_MAPPING ==
    [item \in {"kimchi", "rice"} |-> IF item = "rice" THEN "nonglutinous rice" ELSE item]
CSV_TO_UI_ITEM_MAPPING ==
    [item \in {"kimchi", "nonglutinous rice"} |->
        IF item = "nonglutinous rice" THEN "rice" ELSE item]

\* the columns of export_trends the service reads
ExportColumns == {"country_name", "country_code", "item_name", "period_str",
                  "export_value", "unit_price"}

ExportRows ==
    {[country_name |-> "United States", item_name |-> "kimchi", export_value |-> 5],
     [country_name |-> "United States", item_name |-> "nonglutinous rice",
      export_value |-> 0]}

\* what one SELECT * FROM export_trends may give: no description, no rows, rows
TempFrames == {EmptyFrame, DataFrame({}, ExportColumns)}
                  \cup {DataFrame(rows, ExportColumns) : rows \in SUBSET ExportRows \ {{}}}

\* what one attempt of the loader may meet: no connection, a failing query, a frame
LoadOutcomes ==
    {[conn |-> FALSE, raised |-> "", temp_df |-> EmptyFrame],
     [conn |-> TRUE, raised |-> "DatabaseError", temp_df |-> EmptyFrame]}
        \cup {[conn |-> TRUE, raised |-> "", temp_df |-> f] : f \in TempFrames}

\* the (country, item) groups of the growth matrix
groups(frame) ==
    {[country |-> COUNTRY_MAPPING[r.country_name], item_csv_name |-> r.item_name] :
        r \in frame.rows}

GrowthColumns == {"country", "item_csv_name", "weight_growth", "price_growth",
                  "total_value"}

\* pd.DataFrame(summaries): a list of no dictionaries gives no columns
growth_summary(summaries) ==
    IF summaries = {} THEN EmptyFrame ELSE DataFrame(summaries, GrowthColumns)

\* the local CSV of the fallback: missing, unreadable, or read
CsvOutcomes ==
    {[exists |-> FALSE, raised |-> "", frame |-> EmptyFrame],
     [exists |-> TRUE, raised |-> "ParserError", frame |-> EmptyFrame],
     [exists |-> TRUE, raised |-> "",
      frame |-> DataFrame(ExportRows, ExportColumns \cup {"period"})]}

Endpoints == {"/health/data", "/items", "/analyze"}

NoBody == [data_loaded |-> FALSE, rows |-> 0, growth_matrix_rows |-> 0,
           items |-> {}, has_data |-> FALSE]

Answer(body) == [raised |-> "", body |-> body]

Fails(exception) == [raised |-> exception, body |-> NoBody]

\* GET /health/data
health_data(frame, growth) ==
    Answer([NoBody EXCEPT
               !.data_loaded = ~(frame.kind = "None" \/ empty(frame)),
               !.rows = IF frame.kind # "None" THEN Cardinality(frame.rows) ELSE 0,
               !.growth_matrix_rows =
                   IF growth.kind # "None" THEN Cardinality(growth.rows) ELSE 0])

\* GET /items
get_items(frame) ==
    IF frame.kind = "None" \/ empty(frame) THEN Answer(NoBody)
    ELSE IF "item_name" \notin frame.columns THEN Answer(NoBody)
    ELSE Answer([NoBody EXCEPT
                    !.items = {IF r.item_name \in DOMAIN CSV_TO_UI_ITEM_MAPPING
                               THEN CSV_TO_UI_ITEM_MAPPING[r.item_name]
                               ELSE r.item_name : r \in frame.rows}])

\* lines 681-689 of analyze: the country name and the CSV item name asked for
country_name_of(country) ==
    IF country \in DOMAIN COUNTRY_MAPPING THEN country
    ELSE IF country \in DOMAIN REVERSE_MAPPING THEN REVERSE_MAPPING[country]
    ELSE country

csv_item_name_of(item) ==
    IF item \in DOMAIN UI_TO_CSV_ITEM_MAPPING THEN UI_TO_CSV_ITEM_MAPPING[item] ELSE item

\* lines 692-695 of analyze: the rows of the country and the item
filtered_rows(frame, country, item) ==
    {r \in frame.rows : /\ r.country_name = country_name_of(country)
                        /\ r.item_name = csv_item_name_of(item)}

\* the sum of a numeric column over rows
RECURSIVE column_sum(_)
column_sum(rows) ==
    IF rows = {} THEN 0
    ELSE LET r == CHOOSE x \in rows : TRUE
         IN r.export_value + column_sum(rows \ {r})

\* GET /analyze, up to the test for data of lines 699-701
analyze(frame, country, item) ==
    IF frame.kind = "None" THEN Fails("TypeError")
    ELSE IF "country_name" \notin frame.columns \/ "item_name" \notin frame.columns
    THEN Fails("KeyError")
    ELSE IF filtered_rows(frame, country, item) = {} THEN Answer(NoBody)
    ELSE IF "export_value" \notin frame.columns THEN Fails("KeyError")
    ELSE Answer([NoBody EXCEPT
                    !.has_data = column_sum(filtered_rows(frame, country, item)) # 0])

\* no request was handled
NoRequest == [endpoint |-> "none", country |-> "", item |-> "", loading |-> FALSE,
              raised |-> "", body |-> NoBody]

\* the module as imported: both globals None, no thread, not serving
NoService ==
    [df |-> NoneFrame, growth_summary_df |-> NoneFrame, serving |-> FALSE,
     pc |-> "not started", i |-> 0, last |-> NoRequest]

-----------------------------------------------------------------------------
(* The state machine *)

NoSel == [fn |-> "none", done |-> FALSE, candidates |-> <<>>, base_recipe |-> Null,
          constraints |-> Null, trend_summary |-> Null, llm |-> Returned(<<>>),
          result |-> <<>>, selected_text |-> <<>>, invoked |-> FALSE,
          calls |-> <<>>, raised |-> ""]

\* no call of render_recipe_text was made
NoRender ==
    [payload |-> [k \in {"title", "description", "ingredients", "steps"} |-> Absent],
     done |-> FALSE, raised |-> "", text |-> <<>>]

\* the sessions that share the logs directory
Sessions == {1, 2}

\* a session that is not inside log_trend
IdleWriter ==
    [busy |-> FALSE, path |-> [country |-> <<>>, stamp |-> 0],
     payload |-> log_payload(<<>>, <<>>, <<>>, <<>>)]

\* an empty logs directory at tick 0, nobody writing
NoLogs ==
    [now |-> 0, files |-> {}, written |-> <<>>,
     writer |-> [p \in Sessions |-> IdleWriter]]

Init ==
    /\ \E items \in ForecastItemSets : state = make_initial_state(items)
    /\ svc = NoService
    /\ started = FALSE
    /\ serpapi_key \in BOOLEAN
    /\ calls = <<>>
    /\ raised = ""
    /\ lastOp = [handler |-> "none", input |-> <<>>]
    /\ hist = [turns |-> 0, synthMade |-> FALSE,
               synthValue |-> Null, revisionUses |-> 0,
               prev |-> PrevOf(make_initial_state(<<>>))]
    /\ sel = NoSel
    /\ logs = NoLogs
    /\ render = NoRender

\* demo.load(init_chat)
InitChat ==
    /\ ~started
    /\ started' = TRUE
    /\ state' = init_chat(state.trend_forecast_items)
    /\ calls' = <<Call("run_graph", "graph", <<>>)>>
    /\ raised' = ""
    /\ lastOp' = [handler |-> "init_chat", input |-> <<>>]
    /\ hist' = [hist EXCEPT !.prev = PrevOf(state)]
    /\ UNCHANGED <<serpapi_key, sel, logs, render, svc>>

TurnEnabled == started /\ hist.turns < MaxTurns

\* textbox.submit(on_text_submit)
OnTextSubmit(input) ==
    /\ TurnEnabled
    /\ \E env \in TurnEnvs("on_text_submit", input, state, serpapi_key) :
       \E r \in {on_text_submit(input, state, env)} :
           /\ state' = r.state
           /\ calls' = r.calls
           /\ raised' = r.raised
           /\ lastOp' = [handler |-> "on_text_submit", input |-> input]
           /\ hist' = HistAfter("on_text_submit", input, env, r)
    /\ UNCHANGED <<started, serpapi_key, sel, logs, render, svc>>

\* options.change(on_option_change)
OnOptionChange(choice) ==
    /\ TurnEnabled
    /\ \E env \in TurnEnvs("on_option_change", choice, state, serpapi_key) :
       \E r \in {on_option_change(choice, state, env)} :
           /\ state' = r.state
           /\ calls' = r.calls
           /\ raised' = r.raised
           /\ lastOp' = [handler |-> "on_option_change", input |-> choice]
           /\ hist' = IF Truthy(choice)
                      THEN HistAfter("on_option_change", choice, env, r)
                      ELSE hist
    /\ UNCHANGED <<started, serpapi_key, sel, logs, render, svc>>

Next ==
    \/ InitChat
    \/ \E input \in TextInputsAt(state) : OnTextSubmit(input)
    \/ \E choice \in Range(state.options) \cup {<<>>} : OnOptionChange(choice)

Spec == Init /\ [][Next]_vars


-----------------------------------------------------------------------------
(* The forecast concept selection called directly: the inputs are drawn   *)
(* in the initial state, the actions apply the function to them.          *)

RECURSIVE SeqsUpTo(_, _)
SeqsUpTo(S, n) ==
    IF n = 0 THEN {<<>>}
    ELSE LET shorter == SeqsUpTo(S, n - 1)
         IN  shorter \cup {Append(t, x) : t \in {u \in shorter : Len(u) = n - 1}, x \in S}

\* the candidate lists: <<>>, <<c1>>, <<c1, c2>>, ...
CandidateLists == {Concepts(n) : n \in 0..MaxCandidates}

\* what the array of a response may hold: candidates, a concept that is not a
\* candidate, a padded candidate, an empty string
ResponseElements == {Concept(i) : i \in 1..MaxCandidates} \cup {"zz", " c1 ", "\"\""}

ArrayResponses == {<<"[">> \o items \o <<"]">> : items \in SeqsUpTo(ResponseElements, MaxResponse)}

SelectResponses ==
    {Returned(a) : a \in ArrayResponses}
        \cup {Returned(<<FENCE_JSON, "\n">> \o a \o <<"\n", FENCE>>) : a \in ArrayResponses}
        \cup {Returned(<<"Sorry">>), Returned(<<"[", "c1">>), Returned(<<>>),
              Returned(<<"{", "title:Kimchi Stew", "}">>), Raises("LLMError")}

SelectTexts == {Null, <<"kimchi stew">>}

SelInit ==
    /\ state = make_initial_state(<<>>)
    /\ svc = NoService
    /\ started = FALSE
    /\ serpapi_key = FALSE
    /\ calls = <<>>
    /\ raised = ""
    /\ lastOp = [handler |-> "none", input |-> <<>>]
    /\ hist = [turns |-> 0, synthMade |-> FALSE, synthValue |-> Null,
               revisionUses |-> 0, prev |-> PrevOf(make_initial_state(<<>>))]
    /\ logs = NoLogs
    /\ render = NoRender
    /\ \E c \in CandidateLists, b \in SelectTexts, k \in SelectTexts,
          t \in SelectTexts, l \in SelectResponses :
           sel = [NoSel EXCEPT !.candidates = c, !.base_recipe = b,
                               !.constraints = k, !.trend_summary = t, !.llm = l]

\* select_forecast_items_llm(candidates, base_recipe, constraints, trend_summary)
CallSelector ==
    /\ ~sel.done
    /\ LET r == select_forecast_items_llm(sel.candidates, sel.base_recipe,
                                          sel.constraints, sel.trend_summary, sel.llm)
       IN  sel' = [sel EXCEPT !.fn = "select_forecast_items_llm", !.done = TRUE,
                              !.result = r.result, !.invoked = TRUE,
                              !.calls = r.calls, !.raised = r.raised]
    /\ UNCHANGED <<state, started, serpapi_key, calls, raised, lastOp, hist, logs, render, svc>>

\* the forecast step of try_generate_recipe on trend_forecast_items = candidates
RunForecastStep ==
    /\ ~sel.done
    /\ LET r == select_concepts(sel.candidates, sel.base_recipe,
                                sel.constraints, sel.trend_summary, sel.llm)
       IN  sel' = [sel EXCEPT !.fn = "try_generate_recipe", !.done = TRUE,
                              !.selected_text = r.selected_text,
                              !.invoked = r.invoked,
                              !.calls = r.calls, !.raised = r.raised]
    /\ UNCHANGED <<state, started, serpapi_key, calls, raised, lastOp, hist, logs, render, svc>>

SelNext == CallSelector \/ RunForecastStep

SpecSelect == SelInit /\ [][SelNext]_vars

-----------------------------------------------------------------------------
(* render_recipe_text called directly on payloads with bounded lists *)

RenderItems == {"kimchi", "pork"}
RenderStrings == {Absent, [kind |-> "str", items |-> <<>>],
                  [kind |-> "str", items |-> <<"Kimchi Stew">>]}
RenderLists ==
    {Absent} \cup {[kind |-> "list", items |-> t] : t \in SeqsUpTo(RenderItems, MaxItems)}

RenderInit ==
    /\ state = make_initial_state(<<>>)
    /\ svc = NoService
    /\ started = FALSE
    /\ serpapi_key = FALSE
    /\ calls = <<>>
    /\ raised = ""
    /\ lastOp = [handler |-> "none", input |-> <<>>]
    /\ hist = [turns |-> 0, synthMade |-> FALSE, synthValue |-> Null,
               revisionUses |-> 0, prev |-> PrevOf(make_initial_state(<<>>))]
    /\ sel = NoSel
    /\ logs = NoLogs
    /\ \E t \in RenderStrings, d \in RenderStrings, i \in RenderLists, st \in RenderLists :
           render = [NoRender EXCEPT
                        !.payload = [title |-> t, description |-> d,
                                     ingredients |-> i, steps |-> st]]

\* render_recipe_text(payload)
CallRender ==
    /\ ~render.done
    /\ \E r \in {render_recipe_text(render.payload)} :
           render' = [render EXCEPT !.done = TRUE, !.raised = r.raised, !.text = r.text]
    /\ UNCHANGED <<state, started, serpapi_key, calls, raised, lastOp, hist, sel, logs, svc>>

RenderNext == CallRender

SpecRender == RenderInit /\ [][RenderNext]_vars

-----------------------------------------------------------------------------
(* log_trend called by sessions that share the logs directory.  Each session *)
(* owns its conversation state; the directory and the clock are shared.      *)

LogCountries == {KOREA} \cup FORECAST_COUNTRIES
LogSummaries == {<<"[trend] fusion">>, <<"[trend] retro">>}
LogQueries == <<<<"food trend">>>>
LogResults == <<"r1">>

Busy(w) == {p \in Sessions : w[p].busy}

LogInit ==
    /\ state = make_initial_state(<<>>)
    /\ svc = NoService
    /\ started = FALSE
    /\ serpapi_key = TRUE
    /\ calls = <<>>
    /\ raised = ""
    /\ lastOp = [handler |-> "none", input |-> <<>>]
    /\ hist = [turns |-> 0, synthMade |-> FALSE, synthValue |-> Null,
               revisionUses |-> 0, prev |-> PrevOf(make_initial_state(<<>>))]
    /\ sel = NoSel
    /\ logs = NoLogs
    /\ render = NoRender

\* a second half or a new second begins
Tick ==
    /\ logs.now < MaxClock
    /\ logs' = [logs EXCEPT !.now = @ + 1]
    /\ UNCHANGED <<state, started, serpapi_key, calls, raised, lastOp, hist, sel, render, svc>>

\* lines 558-567 of log_trend in session p: the path is stamped, the file opened
OpenLog(p, country, summary) ==
    /\ ~logs.writer[p].busy
    /\ Len(logs.written) + Cardinality(Busy(logs.writer)) < MaxWrites
    /\ \E path \in {log_path(country, logs.now)} :
           logs' = [logs EXCEPT
                       !.files = open_for_writing(@, path),
                       !.writer[p] = [busy |-> TRUE, path |-> path,
                                      payload |-> log_payload(country, LogQueries,
                                                              LogResults, summary)]]
    /\ UNCHANGED <<state, started, serpapi_key, calls, raised, lastOp, hist, sel, render, svc>>

\* lines 568-569 of log_trend in session p: the payload is written, the file closed
DumpLog(p, tail) ==
    /\ logs.writer[p].busy
    /\ tail => content_at(logs.files, logs.writer[p].path) # <<>>
    /\ logs' = [logs EXCEPT
                    !.files = json_dump(@, logs.writer[p].path,
                                        logs.writer[p].payload, tail),
                    !.written = Append(@, [path |-> logs.writer[p].path,
                                           payload |-> logs.writer[p].payload]),
                    !.writer[p] = IdleWriter]
    /\ UNCHANGED <<state, started, serpapi_key, calls, raised, lastOp, hist, sel, render, svc>>

LogNext ==
    \/ Tick
    \/ \E p \in Sessions, c \in LogCountries, sm \in LogSummaries : OpenLog(p, c, sm)
    \/ \E p \in Sessions, tail \in BOOLEAN : DumpLog(p, tail)

SpecLog == LogInit /\ [][LogNext]_vars
-----------------------------------------------------------------------------
(* The analytics service: the loader thread runs beside the request         *)
(* handlers.  The handlers run one at a time on the event loop; the loader  *)
(* may take a step between any two of them.                                 *)

ServiceCountries == {"US", "United States", "FR"}
ServiceItems == {"kimchi", "rice", "tofu"}

ServiceInit ==
    /\ state = make_initial_state(<<>>)
    /\ started = FALSE
    /\ serpapi_key = FALSE
    /\ calls = <<>>
    /\ raised = ""
    /\ lastOp = [handler |-> "none", input |-> <<>>]
    /\ hist = [turns |-> 0, synthMade |-> FALSE, synthValue |-> Null,
               revisionUses |-> 0, prev |-> PrevOf(make_initial_state(<<>>))]
    /\ sel = NoSel
    /\ logs = NoLogs
    /\ render = NoRender
    /\ svc = NoService

\* lifespan up to its yield: both globals are empty frames, the loader starts
Lifespan ==
    /\ ~svc.serving
    /\ svc' = [svc EXCEPT !.df = EmptyFrame, !.growth_summary_df = EmptyFrame,
                          !.serving = TRUE, !.pc = "connect"]
    /\ UNCHANGED <<state, started, serpapi_key, calls, raised, lastOp, hist, sel, logs, render>>

\* where the loader goes after attempt i has failed and slept
after_attempt(i) == IF i + 1 < max_retries THEN "connect" ELSE "fallback"

\* lines 460-481 and 565-576 of load_data_background: one attempt; rows that
\* were read are published in df before they are processed
LoadAttempt(o) ==
    /\ svc.pc = "connect"
    /\ IF o.conn /\ o.raised = "" /\ ~empty(o.temp_df)
       THEN svc' = [svc EXCEPT !.df = o.temp_df, !.pc = "process"]
       ELSE svc' = [svc EXCEPT !.i = @ + 1, !.pc = after_attempt(svc.i)]
    /\ UNCHANGED <<state, started, serpapi_key, calls, raised, lastOp, hist, sel, logs, render>>

\* lines 484-563: the published frame is cleaned in place, the growth matrix
\* of the groups that are long enough is assigned, the retry loop is left
ProcessLoaded(summaries) ==
    /\ svc.pc = "process"
    /\ summaries \subseteq groups(svc.df)
    /\ svc' = [svc EXCEPT !.growth_summary_df = growth_summary(summaries),
                          !.pc = "fallback"]
    /\ UNCHANGED <<state, started, serpapi_key, calls, raised, lastOp, hist, sel, logs, render>>

\* lines 579-618: the local CSV is read when the database gave nothing
Fallback(o) ==
    /\ svc.pc = "fallback"
    /\ IF (svc.df.kind = "None" \/ empty(svc.df)) /\ o.exists /\ o.raised = ""
       THEN svc' = [svc EXCEPT !.df = DataFrame(o.frame.rows,
                                                o.frame.columns \cup {"period_str"}),
                               !.pc = "final"]
       ELSE svc' = [svc EXCEPT !.pc = "final"]
    /\ UNCHANGED <<state, started, serpapi_key, calls, raised, lastOp, hist, sel, logs, render>>

\* lines 620-623: the service runs with empty frames when nothing was loaded
FinalCheck ==
    /\ svc.pc = "final"
    /\ IF svc.df.kind = "None" \/ empty(svc.df)
       THEN svc' = [svc EXCEPT !.df = EmptyFrame, !.growth_summary_df = EmptyFrame,
                               !.pc = "done"]
       ELSE svc' = [svc EXCEPT !.pc = "done"]
    /\ UNCHANGED <<state, started, serpapi_key, calls, raised, lastOp, hist, sel, logs, render>>

\* the record of the request just handled
Handled(endpoint, country, item, r) ==
    [endpoint |-> endpoint, country |-> country, item |-> item,
     loading |-> svc.pc # "done", raised |-> r.raised, body |-> r.body]

HealthData ==
    /\ svc.serving
    /\ \E r \in {health_data(svc.df, svc.growth_summary_df)} :
           svc' = [svc EXCEPT !.last = Handled("/health/data", "", "", r)]
    /\ UNCHANGED <<state, started, serpapi_key, calls, raised, lastOp, hist, sel, logs, render>>

GetItems ==
    /\ svc.serving
    /\ \E r \in {get_items(svc.df)} :
           svc' = [svc EXCEPT !.last = Handled("/items", "", "", r)]
    /\ UNCHANGED <<state, started, serpapi_key, calls, raised, lastOp, hist, sel, logs, render>>

Analyze(country, item) ==
    /\ svc.serving
    /\ \E r \in {analyze(svc.df, country, item)} :
           svc' = [svc EXCEPT !.last = Handled("/analyze", country, item, r)]
    /\ UNCHANGED <<state, started, serpapi_key, calls, raised, lastOp, hist, sel, logs, render>>

ServiceNext ==
    \/ Lifespan
    \/ \E o \in LoadOutcomes : LoadAttempt(o)
    \/ \E summaries \in SUBSET groups(DataFrame(ExportRows, ExportColumns)) :
           ProcessLoaded(summaries)
    \/ \E o \in CsvOutcomes : Fallback(o)
    \/ FinalCheck
    \/ HealthData
    \/ GetItems
    \/ \E country \in ServiceCountries, item \in ServiceItems : Analyze(country, item)

SpecService == ServiceInit /\ [][ServiceNext]_vars
-----------------------------------------------------------------------------
(* The properties *)

\* C2: on_option_change with an empty choice returns the state unchanged
\* (messages, options and every step flag keep their values) and makes no
\* graph step, LLM call, search call or persistence call.
C2_EmptyOptionIsNoOp ==
    [][(lastOp'.handler = "on_option_change" /\ ~Truthy(lastOp'.input))
           => (state' = state /\ calls' = <<>> /\ raised' = "")]_vars

\* an empty option event arrived while the country options were shown
C2_Witness ==
    /\ lastOp.handler = "on_option_change"
    /\ lastOp.input = <<>>
    /\ state.options = COUNTRY_OPTIONS
    /\ ~state.trend_selected

\* C3: for every candidate list and every LLM response, the result of
\* select_forecast_items_llm holds only elements of the candidate list and has
\* at most 2 elements.
C3_SubsetLaw ==
    (sel.done /\ sel.fn = "select_forecast_items_llm")
        => /\ Len(sel.result) <= 2
           /\ Range(sel.result) \subseteq Range(sel.candidates)

\* the response named three candidates: two were returned
C3_Witness ==
    /\ sel.done
    /\ sel.fn = "select_forecast_items_llm"
    /\ sel.llm = Returned(<<"[", "c3", "c1", "c2", "]">>)
    /\ sel.result = <<"c3", "c1">>

\* C4: on an empty candidate list select_forecast_items_llm returns the empty
\* list and makes no external call, for any base_recipe, constraints and
\* trend_summary; the forecast step of try_generate_recipe does not invoke the
\* selector when trend_forecast_items is empty.
C4_EmptyCandidates ==
    (sel.done /\ sel.candidates = <<>>)
        => /\ sel.calls = <<>>
           /\ sel.raised = ""
           /\ sel.fn = "select_forecast_items_llm" => sel.result = <<>>
           /\ sel.fn = "try_generate_recipe"
                  => ~sel.invoked /\ sel.selected_text = NONE_TEXT

\* the selector was called on no candidates, with a base recipe and a trend
\* summary, and an LLM that would have named a concept
C4_Witness ==
    /\ sel.done
    /\ sel.fn = "select_forecast_items_llm"
    /\ sel.candidates = <<>>
    /\ sel.base_recipe # Null
    /\ sel.trend_summary # Null
    /\ sel.llm = Returned(<<"[", "c1", "]">>)
\* the sites of the calls of a fresh generation: trend augmentation, forecast
\* concept selection, synthesis from the assembled prompt
FreshSites == {"trend_query", "search", "summary", "log_trend", "select", "synthesis"}
ExternalSites == FreshSites \cup {"revision", "csrf", "save"}

\* the turn just made was the third, and the three followed the order country
\* selection, base recipe text, constraints text
InOrderThroughConstraints ==
    /\ hist.turns = 3
    /\ lastOp.handler = "on_text_submit"
    /\ state.trend_selected /\ state.base_done /\ state.constraints_done
    /\ \E i \in 1..Len(state.messages), c \in Range(COUNTRY_OPTIONS) :
           state.messages[i] = UserMsg(c)

\* C1 (as stated): after well-formed inputs in the order country selection, base
\* recipe text, constraints text, whatever the LLM and search adapters return,
\* the state at the next pause has recipe_generated = true and recipe non-null.
C1_GeneratedAfterConstraints ==
    (InOrderThroughConstraints /\ raised \notin AdapterExceptions)
        => (state.recipe_generated /\ state.recipe # Null)

\* the text turn that followed a selection of Regenerate
RevisionTextTurn ==
    /\ lastOp.handler = "on_text_submit"
    /\ hist.prev.await_revision
    /\ hist.prev.options = <<>>

\* C5 (as stated): at every pause point recipe_generated is true if and only if
\* recipe holds a non-null value that the most recent synthesis call (fresh or
\* revision) produced.
C5_GeneratedIffLatestSynthesis ==
    started =>
        (state.recipe_generated
            <=> (state.recipe # Null /\ hist.synthMade
                    /\ state.recipe = hist.synthValue))

\* Regenerate was selected at the Post-Generation menu
RegenerateAtMenu ==
    /\ lastOp.handler = "on_option_change"
    /\ lastOp.input = REGEN_OPTION
    /\ hist.prev.recipe_generated
    /\ REGEN_OPTION \in Range(hist.prev.options)

\* C6 (as stated): selecting Regenerate at the Post-Generation menu clears
\* recipe_generated, sets await_revision, appends the prompt for revision text
\* and calls neither the LLM, the search API nor the persistence API.
C6_RegenerateClearsGenerated ==
    RegenerateAtMenu
        => /\ ~state.recipe_generated
           /\ state.await_revision
           /\ Last(state.messages) = AssistantMsg(MSG_ASK_REVISION)
           /\ Sites(calls) \cap ExternalSites = {}

\* C6 (amended): selecting Regenerate at the Post-Generation menu sets
\* regenerate and await_revision, clears the options, appends the prompt for
\* revision text, makes no graph step and no LLM, search or persistence call,
\* and leaves recipe_generated true: it is cleared when the revision text
\* arrives.
C6_RegenerateKeepsGenerated ==
    RegenerateAtMenu
        => /\ state.recipe_generated
           /\ state.regenerate
           /\ state.await_revision
           /\ state.options = <<>>
           /\ Last(state.messages) = AssistantMsg(MSG_ASK_REVISION)
           /\ calls = <<>>
           /\ raised = ""

\* Regenerate was selected after a recipe was generated and saved
C6_Witness ==
    /\ RegenerateAtMenu
    /\ hist.prev.save_disabled
    /\ state.await_revision
\* the revision call a turn makes from the recipe held before it and text
RevisionCall(text) ==
    Call("call_llm", "revision",
         build_revision_prompt(OrElse(hist.prev.recipe, EMPTY_OBJECT), text))

\* C7: after Regenerate, a non-empty revision text takes the revision branch:
\* the turn makes exactly one LLM call, built from the prior recipe value and
\* the revision text, and runs neither the trend augmentation nor the forecast
\* concept selector nor a synthesis from the fresh prompt.
C7_RevisionBranch ==
    (RevisionTextTurn /\ lastOp.input # <<>>)
        => /\ calls = <<Call("run_graph", "graph", <<>>), RevisionCall(lastOp.input)>>
           /\ Sites(calls) \cap FreshSites = {}

\* a revision text was applied to a generated recipe, and the rewritten recipe
\* was stored
C7_Witness ==
    /\ RevisionTextTurn
    /\ lastOp.input = <<"kimchi stew">>
    /\ hist.prev.recipe # Null
    /\ raised = ""
    /\ state.recipe_generated
    /\ "revision" \in Sites(calls)

\* C8 (as stated): after Regenerate, an empty revision text makes
\* revision_request the empty string, clears await_revision, and still takes
\* the revision branch: the revision prompt is sent with the prior recipe and
\* empty instructions, and no fresh generation, trend search or forecast
\* selection happens.
C8_EmptyRevisionTakesRevisionBranch ==
    (RevisionTextTurn /\ lastOp.input = <<>>)
        => /\ state.revision_request = <<>>
           /\ ~state.await_revision
           /\ RevisionCall(<<>>) \in Range(calls)
           /\ Sites(calls) \cap FreshSites = {}

\* C9 (as stated): revision_request is empty at every pause that follows a
\* completed regeneration, and one revision text is never used for two LLM
\* calls.
C9_RevisionRequestUsedOnce ==
    /\ ("revision" \in Sites(calls) /\ raised = "") => state.revision_request = <<>>
    /\ hist.revisionUses <= 1

\* Save, or the relabelled Save, was selected while the recipe was saved
SaveWhileSaved ==
    /\ lastOp.handler = "on_option_change"
    /\ lastOp.input \in {SAVE_OPTION, SAVE_DONE_OPTION}
    /\ hist.prev.save_disabled

\* C10: selecting Save (or the relabelled Save) while save_disabled is true
\* appends the 'already saved' message and does not call the persistence API;
\* no turn that starts with save_disabled true issues the persistence POST.
C10_NoSaveWhileSaved ==
    /\ SaveWhileSaved
           => /\ Last(state.messages) = AssistantMsg(MSG_ALREADY_SAVED)
              /\ Sites(calls) \cap {"csrf", "save"} = {}
              /\ state.save_disabled
    /\ (lastOp.handler # "init_chat" /\ hist.prev.save_disabled)
           => "save" \notin Sites(calls)

\* the relabelled Save was selected after a successful save
C10_Witness ==
    /\ SaveWhileSaved
    /\ lastOp.input = SAVE_DONE_OPTION
    /\ state.saved_recipe_id # Null
    /\ Last(state.messages) = AssistantMsg(MSG_ALREADY_SAVED)
\* Public or Private was selected in the Save-Visibility sub-dialogue
VisibilityChosen ==
    /\ lastOp.handler = "on_option_change"
    /\ lastOp.input \in {SAVE_PUBLIC_OPTION, SAVE_PRIVATE_OPTION}
    /\ hist.prev.await_save_visibility

VisibilityOutcome(s, choice, post, r) ==
    /\ r.state.save_open_yn = IF choice = SAVE_PUBLIC_OPTION THEN <<"Y">> ELSE <<"N">>
    /\ ~r.state.await_save_visibility
    /\ ~r.state.do_save
    /\ Sites(r.calls) \subseteq {"csrf", "save"}
    /\ IF ~HasRecipePayload(s)
       THEN /\ r.calls = <<>>
            /\ r.raised = ""
            /\ ~r.state.save_disabled
            /\ r.state.options = <<REGEN_OPTION, SAVE_OPTION>>
            /\ Last(r.state.messages) = AssistantMsg(MSG_NOT_PARSED)
       ELSE IF save_payload_raises(Payload(RecipePayloadText(s)))
       THEN /\ r.calls = <<>>
            /\ r.raised = "AttributeError"
            /\ ~r.state.save_disabled
            /\ r.state.options = <<>>
       ELSE /\ "save" \in Sites(r.calls)
            /\ r.raised = ""
            /\ r.state.save_disabled <=> (post.raised = "" /\ Head(post.text) = "200")
            /\ r.state.options = <<REGEN_OPTION,
                                   IF r.state.save_disabled THEN SAVE_DONE_OPTION
                                   ELSE SAVE_OPTION>>
            /\ r.state.save_disabled => Last(r.state.messages) = AssistantMsg(MSG_SAVED)

AwaitsFreeText(s) == started /\ s.options = <<>> /\ ~s.await_revision

\* the empty text was taken as a skipped base recipe
BaseSkipped(s, r) ==
    /\ r.state.base_recipe = Null
    /\ r.state.base_done
    /\ r.state.constraints_done = s.constraints_done
    /\ "graph" \in Sites(r.calls)

\* the empty text was taken as skipped constraints
ConstraintsSkipped(s, r) ==
    /\ r.state.constraints = Null
    /\ r.state.constraints_done
    /\ r.state.base_done
    /\ r.state.base_recipe = s.base_recipe
    /\ "graph" \in Sites(r.calls)

\* C12: an empty text in Base-Recipe-Input or Constraints-Input stores null in
\* base_recipe or constraints and still sets base_done or constraints_done, so
\* the dialogue advances.
C12_EmptyTextSkips ==
    (AwaitsFreeText(state) /\ ~state.constraints_done)
        => \A env \in TurnEnvs("on_text_submit", <<>>, state, serpapi_key) :
               IF ~state.base_done
               THEN BaseSkipped(state, on_text_submit(<<>>, state, env))
               ELSE ConstraintsSkipped(state, on_text_submit(<<>>, state, env))

\* the base recipe was skipped with an empty text; the constraints are asked
C12_Witness ==
    /\ lastOp = [handler |-> "on_text_submit", input |-> <<>>]
    /\ hist.turns = 2
    /\ state.base_done
    /\ state.base_recipe = Null
    /\ ~state.constraints_done

\* what can arrive as user input: typed text, or the label of an option
AnyInputs ==
    TextInputs \cup {REGEN_OPTION, SAVE_OPTION, NO_TREND_OPTION, KOREA}

\* the fields a revision text must leave alone
AnswersKept(s, t) ==
    /\ t.base_recipe = s.base_recipe
    /\ t.constraints = s.constraints
    /\ t.base_done = s.base_done
    /\ t.constraints_done = s.constraints_done
    /\ t.country = s.country
    /\ t.trend_enabled = s.trend_enabled

\* apply_user_input stored the input as the revision request
RevisionStored(s, input, t) ==
    /\ t.revision_request = input
    /\ ~t.await_revision
    /\ AnswersKept(s, t)

\* C13: while await_revision is true, any user input is stored in
\* revision_request and leaves base_recipe, constraints, base_done,
\* constraints_done, country and trend_enabled unchanged, over the whole turn.
C13_RevisionInputRouted ==
    (started /\ state.await_revision)
        => \A input \in AnyInputs :
               /\ RevisionStored(state, input, apply_user_input(state, input))
               /\ \A env \in TurnEnvs("on_text_submit", input, state, serpapi_key) :
                      AnswersKept(state, on_text_submit(input, state, env).state)

\* a revision is awaited after answers were given to both questions
C13_Witness ==
    /\ state.await_revision
    /\ state.base_recipe # Null
    /\ state.constraints # Null
    /\ lastOp.input = REGEN_OPTION
\* the sites of the trend search: query LLM, web search, summary LLM
TrendSearchSites == {"trend_query", "search", "summary"}

\* the turn ended with an exception raised by the call at one of the sites
RaisedAt(sites) ==
    /\ raised # ""
    /\ calls # <<>>
    /\ Last(calls).site \in sites

\* C14 (as stated): when the query LLM call, the web search or the summary LLM
\* call raises, the exception is caught at the call site: none reaches the
\* caller of the turn, the synthesis call is still made and recipe_generated
\* is true unless a later call fails.
C14_TrendFailuresCaught ==
    "trend_query" \in Sites(calls)
        => /\ ~RaisedAt(TrendSearchSites)
           /\ raised = "" => ("synthesis" \in Sites(calls) /\ state.recipe_generated)

\* C15 (as stated): log_trend raising never ends the turn: the synthesis call
\* is still made and recipe_generated is true unless a later call fails.
C15_LogFailureIgnored ==
    "log_trend" \in Sites(calls)
        => /\ ~RaisedAt({"log_trend"})
           /\ raised = "" => ("synthesis" \in Sites(calls) /\ state.recipe_generated)
\* the sites of the trend pipeline, the transcript included
TrendSites == TrendSearchSites \cup {"log_trend"}

\* the three conditions of the trend gate, as the turn found them
TrendGateOpen ==
    /\ state.trend_enabled
    /\ state.country = KOREA \/ state.country \in FORECAST_COUNTRIES
    /\ serpapi_key

\* no prompt sent for synthesis in the turn carries a trend summary
NoSummaryInSynthesis ==
    \A i \in 1..Len(calls) :
        calls[i].site = "synthesis"
            => \A j \in 1..Len(calls[i].arg), o \in SummaryOutcomes :
                   o.text = <<>> \/ calls[i].arg[j] # o.text[1]

\* C16: the trend pipeline runs only when trend_enabled, a supported country
\* and the search credential are all present; when one is missing the
\* pipeline is skipped, the synthesis prompt carries no trend summary, and
\* the generation still completes.
C16_TrendGate ==
    /\ Sites(calls) \cap TrendSites # {} => TrendGateOpen
    /\ ("synthesis" \in Sites(calls) /\ ~TrendGateOpen)
          => /\ Sites(calls) \cap TrendSites = {}
             /\ NoSummaryInSynthesis
             /\ raised = "" => state.recipe_generated

\* a generation completed with the trend enabled for Korea and no credential
C16_Witness ==
    /\ ~serpapi_key
    /\ state.trend_enabled
    /\ state.country = KOREA
    /\ "synthesis" \in Sites(calls)
    /\ Sites(calls) \cap TrendSites = {}
    /\ state.recipe_generated
\* C17 (as stated): the trend log is append-only: a transcript record written
\* by log_trend is never overwritten or removed by a later call, a concurrent
\* session for the same country within the same second included, and each
\* invocation leaves its own record.
C17_LogAppendOnly ==
    /\ \A i \in 1..Len(logs.written) :
           content_at(logs.files, logs.written[i].path) = <<logs.written[i].payload>>
    /\ Cardinality({f \in logs.files : f.content # <<>>}) >= Len(logs.written)
\* the sites of the LLM and search calls
GenerationSites == FreshSites \cup {"revision"}

\* the turn whose outcome is r made no LLM call and no search call
QuietTurn(r) == Sites(r.calls) \cap GenerationSites = {}

\* what can be selected or typed once a recipe is generated
MenuInputs ==
    AnyInputs \cup {SAVE_DONE_OPTION, SAVE_PUBLIC_OPTION, SAVE_PRIVATE_OPTION}

\* the calls of the last turn that ask the LLM for a recipe
SynthesisCalls == {i \in 1..Len(calls) : calls[i].site \in {"synthesis", "revision"}}

\* the last turn was a handler run on an input it does not ignore
TurnMade ==
    \/ lastOp.handler = "on_text_submit"
    \/ lastOp.handler = "on_option_change" /\ Truthy(lastOp.input)

\* C18: in any turn that starts with recipe_generated true and no revision
\* awaited (Regenerate, Save, the visibility selections, the already-saved
\* answer, stray text) no LLM call and no search call is made; a generation
\* turn calls the synthesis LLM exactly once.
C18_PipelinesOnlyAtGeneration ==
    /\ (started /\ state.recipe_generated /\ ~state.await_revision)
          => \A input \in MenuInputs :
                 /\ \A env \in TurnEnvs("on_text_submit", input, state, serpapi_key) :
                        QuietTurn(on_text_submit(input, state, env))
                 /\ \A env \in TurnEnvs("on_option_change", input, state, serpapi_key) :
                        QuietTurn(on_option_change(input, state, env))
    /\ Cardinality(SynthesisCalls) <= 1
    /\ (TurnMade /\ raised = "" /\ state.recipe_generated
            /\ (~hist.prev.recipe_generated \/ hist.prev.await_revision))
          => Cardinality(SynthesisCalls) = 1

\* Save was selected at the menu of a generated recipe: no LLM or search call
C18_Witness ==
    /\ lastOp = [handler |-> "on_option_change", input |-> SAVE_OPTION]
    /\ hist.prev.recipe_generated
    /\ ~hist.prev.await_revision
    /\ state.recipe_generated
    /\ state.await_save_visibility
    /\ Sites(calls) \cap GenerationSites = {}
\* responses of the synthesis LLM that hold no JSON object: prose, an opening
\* brace never closed, braces around something that is not JSON, nothing
NonJsonResponses ==
    {PROSE_RECIPE, <<"Here it is:", "{", "title:Kimchi Stew">>,
     <<"{", "not json", "}">>, <<>>}

\* no JSON object can be extracted and parsed from the text
NoJsonObject(text) ==
    \/ extract_json_from_text(text) = <<>>
    \/ ~IsJsonObject(extract_json_from_text(text))

\* the turn whose outcome is r asked the LLM for a recipe
SynthesisAsked(r) == Sites(r.calls) \cap {"synthesis", "revision"} # {}

\* the turn whose outcome is r ended normally with the raw text as the recipe
RawTextKept(text, r) ==
    /\ r.raised = ""
    /\ r.state.recipe = text
    /\ Last(r.state.messages) = AssistantMsg(text)
    /\ r.state.recipe_generated

\* the outcome r of a turn in which the synthesis LLM answers text keeps it
RawTextKeptIn(text, r) == SynthesisAsked(r) => RawTextKept(text, r)

\* C19: when no JSON object can be extracted and parsed from the synthesis
\* response, fresh or revision, the turn does not fail: the stored recipe is
\* the raw response text, the assistant message appended is that same text,
\* and recipe_generated is true.
C19_RawTextFallback ==
    started =>
        \A input \in TextInputs \cup {REGEN_OPTION}, text \in NonJsonResponses :
            /\ NoJsonObject(text)
            /\ RawTextKeptIn(text,
                             on_text_submit(input, state,
                                            [DefaultEnv(serpapi_key)
                                                EXCEPT !.synth = Returned(text)]))

\* a fresh synthesis answered prose, and a revision answered prose
C19_Witness ==
    /\ state.recipe = PROSE_RECIPE
    /\ Last(state.messages) = AssistantMsg(PROSE_RECIPE)
    /\ state.recipe_generated
    /\ raised = ""
    /\ "revision" \in Sites(calls)
\* the last turn completed a generation: the LLM was asked, nothing raised
GenerationCompleted ==
    /\ SynthesisCalls # {}
    /\ raised = ""
    /\ state.recipe_generated

\* C20 (as stated): after every completed generation, first, revision-branch
\* or after an empty revision text, the rendered recipe is the last message
\* and the options are exactly Regenerate and Save.
C20_MenuAfterGeneration ==
    GenerationCompleted
        => /\ Last(state.messages) = AssistantMsg(parse_and_render(state.recipe).message)
           /\ state.options = <<REGEN_OPTION, SAVE_OPTION>>
\* the options of the Save-Visibility sub-dialogue
VisibilityOptions == <<SAVE_PUBLIC_OPTION, SAVE_PRIVATE_OPTION>>

\* C21: at every pause exactly one input mode is in force: the textbox takes
\* free text if and only if options is empty; await_revision implies options
\* is empty, await_save_visibility implies options is [Public, Private], and
\* the two await flags are never true together.
C21_OneInputMode ==
    started =>
        /\ ~should_disable_textbox(state) <=> state.options = <<>>
        /\ state.await_revision => state.options = <<>>
        /\ state.await_save_visibility => state.options = VisibilityOptions
        /\ ~(state.await_revision /\ state.await_save_visibility)
\* Save was selected: the visibility is asked with its two options
C21_Witness ==
    /\ lastOp.input = SAVE_OPTION
    /\ state.await_save_visibility
    /\ state.options = VisibilityOptions
    /\ should_disable_textbox(state)
    /\ ~state.await_revision
\* the turn whose outcome is r changed nothing and called nothing
NoOpTurn(s, r) ==
    /\ r.state = s
    /\ r.calls = <<>>
    /\ r.raised = ""

\* C22 (as stated): in the Save-Visibility sub-dialogue an input other than
\* Public or Private leaves the whole conversation state unchanged, messages,
\* options, await_save_visibility and the save bookkeeping included, and
\* makes no graph step and no external call.
C22_InvalidVisibilityIsNoOp ==
    (started /\ state.await_save_visibility)
        => \A input \in AnyInputs \ {SAVE_PUBLIC_OPTION, SAVE_PRIVATE_OPTION} :
               NoOpTurn(state, on_text_submit(input, state, DefaultEnv(serpapi_key)))
\* the sections a payload has, in the order of the rendering, each the
\* sequence of its lines
TitleSection(p) ==
    IF ValueTruthy(p.title)
    THEN <<<<"Recipe name: " \o p.title.items[1]>>>> ELSE <<>>

IngredientsSection(p) ==
    IF ValueTruthy(p.ingredients)
    THEN <<<<"Ingredients (2-3 servings):">>
             \o [i \in 1..Len(p.ingredients.items) |-> "- " \o p.ingredients.items[i]]>>
    ELSE <<>>

StepsSection(p) ==
    IF ValueTruthy(p.steps)
    THEN <<<<"Steps:">>
             \o [i \in 1..Len(p.steps.items) |->
                    ToString(i) \o ") " \o p.steps.items[i]]>>
    ELSE <<>>

DescriptionSection(p) ==
    IF ValueTruthy(p.description)
    THEN <<<<"Recipe intro:", p.description.items[1]>>>> ELSE <<>>

SectionsOf(p) ==
    TitleSection(p) \o IngredientsSection(p) \o StepsSection(p) \o DescriptionSection(p)

\* the lines of the sections with one empty line between two sections
RECURSIVE SectionLines(_)
SectionLines(sections) ==
    IF sections = <<>> THEN <<>>
    ELSE IF Len(sections) = 1 THEN Head(sections)
    ELSE Head(sections) \o <<"">> \o SectionLines(Tail(sections))

\* the text of lines: a line break after every line but the last, an empty
\* line being no characters at all
RECURSIVE TextOfLines(_)
TextOfLines(lines) ==
    IF lines = <<>> THEN <<>>
    ELSE (IF Head(lines) = "" THEN <<>> ELSE <<Head(lines)>>)
            \o (IF Len(lines) = 1 THEN <<>> ELSE <<"\n">>)
            \o TextOfLines(Tail(lines))

\* C23: render_recipe_text emits the sections in the order title, ingredients
\* (one bullet per item), steps (numbered from 1), description, omits every
\* empty field, puts a single blank line between sections and keeps the
\* order of the input lists, for every payload over bounded lists.
C23_RenderedSections ==
    render.done
        => /\ render.raised = ""
           /\ render.text = TextOfLines(SectionLines(SectionsOf(render.payload)))

\* all four sections were rendered, two ingredients among them
C23_Witness ==
    /\ render.done
    /\ Len(SectionsOf(render.payload)) = 4
    /\ Len(render.payload.ingredients.items) = 2
    /\ Len(render.payload.steps.items) = 2
    /\ render.text # <<>>
\* the order of the calls of the trend pipeline
TrendOrder == <<"trend_query", "search", "summary", "log_trend">>

\* the sites of the calls cs, in order
SiteSeq(cs) == [i \in 1..Len(cs) |-> cs[i].site]

\* the calls cs are the first calls of the trend pipeline, each made once
InTrendOrder(cs) ==
    /\ Len(cs) <= Len(TrendOrder)
    /\ SiteSeq(cs) = SubSeq(TrendOrder, 1, Len(cs))

\* the environments of a trend pipeline that is entered
TrendEnvs ==
    {[DefaultEnv(TRUE) EXCEPT !.query = q, !.search = f, !.summary = sm, !.log = lg] :
        q \in QueryOutcomes, f \in SearchOutcomes, sm \in SummaryOutcomes,
        lg \in LogOutcomes}

\* what the pipeline t did with the queries parsed and the results found
TrendStepsConditional(country, env, queries, t) ==
    /\ InTrendOrder(t.calls)
    /\ "search" \in Sites(t.calls)
          => /\ env.query.raised = "" /\ queries # <<>>
             /\ t.calls[2] = Call("requests.get", "search", <<queries[1]>> \o country)
    /\ "summary" \in Sites(t.calls)
          => env.search.raised = "" /\ env.search.text # <<>>
    /\ "log_trend" \in Sites(t.calls) => env.summary.raised = ""
    /\ (env.query.raised = "" /\ queries = <<>>)
          => t.summary = <<>> /\ t.raised = "" /\ Len(t.calls) = 1
    /\ (env.query.raised = "" /\ queries # <<>>
            /\ env.search.raised = "" /\ env.search.text = <<>>)
          => t.summary = <<>> /\ t.raised = "" /\ Len(t.calls) = 2

\* the calls of the last turn made at the sites of the trend pipeline
TrendCalls == SelectSeq(calls, LAMBDA c : c.site \in TrendSites)

\* C24: the calls of the trend pipeline are ordered and conditional: one
\* search at most, with the first parsed query and only if a query was
\* parsed; the summary call only if the search found a result; the log only
\* after the summary; no query or no result skips the steps that follow and
\* leaves the summary empty.
C24_TrendCallsOrdered ==
    /\ InTrendOrder(TrendCalls)
    /\ "trend_query" \in Sites(calls)
          => \A env \in TrendEnvs :
                 TrendStepsConditional(state.country, env,
                                       parse_json_array(env.query.text),
                                       trend_pipeline(state.country, env))

\* the pipeline stopped after a search without results; the recipe was generated
C24_Witness ==
    /\ SiteSeq(TrendCalls) = <<"trend_query", "search">>
    /\ raised = ""
    /\ state.recipe_generated
\* the invocations of run_graph in the last turn
GraphCalls == {i \in 1..Len(calls) : calls[i].site = "graph"}

\* the last turn was a visibility choice, which performs the save
SaveTurn ==
    /\ hist.prev.await_save_visibility
    /\ hist.prev.options # <<>>
    /\ lastOp.input \in {SAVE_PUBLIC_OPTION, SAVE_PRIVATE_OPTION}

\* C25: the graph is not advanced while a sub-dialogue is pending: run_graph
\* is invoked only if, after the input is applied, await_revision and
\* await_save_visibility are both false, and not at all in a turn that
\* saves; every other turn advances the graph by exactly one invocation.
C25_GraphPausedInSubDialogue ==
    TurnMade
        => Cardinality(GraphCalls)
              = IF SaveTurn \/ state.await_revision \/ state.await_save_visibility
                THEN 0 ELSE 1

\* Regenerate was selected: the revision is awaited and the graph did not run
C25_Witness ==
    /\ lastOp.input = REGEN_OPTION
    /\ state.await_revision
    /\ GraphCalls = {}
    /\ hist.prev.recipe_generated
\* t begins with s
IsPrefix(s, t) == Len(s) <= Len(t) /\ SubSeq(t, 1, Len(s)) = s

\* C26: messages is append-only over the whole session: after every turn
\* (text submit, option selection, save, regeneration) the messages list has
\* the list before the turn as a prefix.
C26_MessagesAppendOnly ==
    [][IsPrefix(state.messages, state'.messages)]_vars

\* texts were submitted, a recipe generated, Save selected and a save made
C26_Witness ==
    /\ SaveTurn
    /\ state.save_disabled
    /\ Len(state.messages) >= 10
\* the turn from s whose outcome is r did not change a saved recipe
SavedRecipeKept(s, r) == r.state.save_disabled => r.state.recipe = s.recipe

\* the last turn made the persistence POST and the backend accepted it
SavedNow ==
    /\ SaveTurn
    /\ "save" \in Sites(calls)
    /\ raised = ""
    /\ Last(state.messages) = AssistantMsg(MSG_SAVED)

\* C27: save_disabled implies that the recipe is the one that was persisted:
\* it becomes true only on a successful persistence response, no turn changes
\* the recipe while it stays true, and selecting Regenerate resets it before
\* the recipe changes.
C27_SavedMeansPersisted ==
    /\ (TurnMade /\ state.save_disabled)
          => /\ state.recipe = hist.prev.recipe
             /\ hist.prev.save_disabled \/ SavedNow
    /\ (started /\ state.save_disabled)
          => /\ \A input \in MenuInputs, synth \in SynthOutcomes :
                    SavedRecipeKept(state,
                                    on_text_submit(input, state,
                                                   [DefaultEnv(serpapi_key)
                                                       EXCEPT !.synth = synth]))
             /\ REGEN_OPTION \in Range(state.options)
                    => ~on_text_submit(REGEN_OPTION, state,
                                       DefaultEnv(serpapi_key)).state.save_disabled

\* the saved recipe was kept by the turn that answered 'already saved'
C27_Witness ==
    /\ state.save_disabled
    /\ hist.prev.save_disabled
    /\ lastOp.input = SAVE_DONE_OPTION
    /\ state.recipe = hist.prev.recipe
\* the stored recipe of s is empty or raw text holding no JSON object
RecipeUnparsed(s) == ~Truthy(s.recipe) \/ NoJsonObject(s.recipe)

\* the save turn from s whose outcome is r sent nothing and said so
SaveRefused(s, choice, r) ==
    /\ r.calls = <<>>
    /\ r.raised = ""
    /\ r.state.messages
          = s.messages \o <<UserMsg(choice), AssistantMsg(MSG_NOT_PARSED)>>
    /\ r.state.save_disabled = s.save_disabled
    /\ r.state.saved_recipe_id = s.saved_recipe_id
    /\ r.state.options = <<REGEN_OPTION, SAVE_OPTION>>

\* the visibility choice made in s with outcome r posts only a JSON object
PostNeedsJsonObject(s, choice, r) ==
    /\ "save" \in Sites(r.calls)
          => (Truthy(s.recipe) /\ IsJsonObject(extract_json_from_text(s.recipe)))
    /\ RecipeUnparsed(s) => SaveRefused(s, choice, r)

\* C28: the persistence POST is sent only when the stored recipe parses as a
\* JSON object: with a raw-text or empty recipe a Public/Private selection
\* sends no request, appends the 'could not parse' message, leaves
\* save_disabled and saved_recipe_id unchanged and returns to the options
\* [Regenerate, Save].
C28_PostOnlyForJsonRecipe ==
    (started /\ state.await_save_visibility)
        => \A choice \in {SAVE_PUBLIC_OPTION, SAVE_PRIVATE_OPTION}, post \in PostOutcomes :
               PostNeedsJsonObject(state, choice,
                                   on_option_change(choice, state,
                                                    [DefaultEnv(serpapi_key)
                                                        EXCEPT !.post = post]))

\* Private was chosen for a recipe that is raw text: nothing was sent
C28_Witness ==
    /\ SaveTurn
    /\ lastOp.input = SAVE_PRIVATE_OPTION
    /\ state.recipe = PROSE_RECIPE
    /\ calls = <<>>
    /\ Last(state.messages) = AssistantMsg(MSG_NOT_PARSED)
    /\ state.options = <<REGEN_OPTION, SAVE_OPTION>>
\* C29 (as stated): the regenerate flag is reset by the regeneration that
\* follows the selection of Regenerate: at every pause where recipe_generated
\* is true and no revision is awaited, regenerate is false, whatever the
\* revision text was, the empty one included.
C29_RegenerateFlagReset ==
    (started /\ state.recipe_generated /\ ~state.await_revision)
        => ~state.regenerate

\* C30: in the analytics service, with df and growth_summary_df set to empty
\* frames at startup, every request to /health/data, /items or /analyze that
\* is handled before the loader thread has finished returns a normal response
\* and does not raise, whatever the interleaving of loader and handlers.
C30_EarlyRequestsAnswered ==
    (svc.last.endpoint \in Endpoints /\ svc.last.loading) => svc.last.raised = ""

====
